---- MODULE Spec2Model ----
(***************************************************************************)
(* Model of the artwork maintenance scripts of lindsey-website/scripts.    *)
(*                                                                         *)
(* Strings are sequences of one-character strings, so that splitting,      *)
(* regular-expression search, case folding and suffix extraction are       *)
(* computed character by character, as the Python code computes them.      *)
(***************************************************************************)
EXTENDS Integers, Sequences, FiniteSets, TLC

VARIABLES
    \* ---- the directory tree given to get_valid_art_directories ----
    fs,                  \* directory name -> [txt, files]
    \* ---- get_valid_art_directories: position and locals ----
    pc,                  \* "idle" | "start" | "loop" | "done" | "raised"
    art_dirs,            \* the sorted list of subdirectories
    idx,                 \* number of directories the for loop has finished
    valid_art_info,
    invalid_art_info,
    missing_txt,
    missing_img,
    missing_title,
    missing_matched_img,
    valid_images,
    loc,                 \* the loop body's locals after the last iteration
    \* ---- a single call of a pure function ----
    fpc,                 \* "idle" | "call" | "return", or a step between
    arg,                 \* the argument
    ret,                 \* the returned value
    \* ---- add_valid_ratios.py on one description file ----
    file,                \* the lines of the description file
    original,            \* its lines before the first run
    image,               \* the pixel size of the directory's image
    runs,                \* the runs of process_artwork_file so far
    outcome,             \* how the last run ended
    \* ---- merge_artworks.py: main on a list of artwork directories ----
    mpc,                 \* "idle" | "start" | "loop"
    artworks,            \* what each directory of art_dirs gives
    pos,                 \* the directory the for loop is at
    conn,                \* the database: committed rows and the transaction
    stats,               \* the counters of the run
    dry_run,             \* args.dry_run of the run
    log                  \* how each finished run ended

scanVars == <<fs, pc, art_dirs, idx, valid_art_info, invalid_art_info,
              missing_txt, missing_img, missing_title, missing_matched_img,
              valid_images, loc>>
fnVars == <<fpc, arg, ret>>
fileVars == <<file, original, image, runs, outcome>>
mergeVars == <<mpc, artworks, pos, conn, stats, dry_run, log>>
vars == <<scanVars, fnVars, fileVars, mergeVars>>

(***************************************************************************)
(* Bounds of the model.                                                    *)
(***************************************************************************)
\* longest directory name given to stripDirStringToImageFormat
MaxNameLen == 4
\* longest description text, counted in tokens, given to the title search
MaxTokens == 5
\* most subdirectories of a scanned root
MaxDirs == 2
\* most entries (besides the description files) of the scanned tree
MaxFiles == 2
\* longest description text, counted in pieces, given to parse_artwork_file
MaxPieces == 5
\* largest pixel width and height of the images of the ratio queries
MaxDim == 7
\* most lines of a description file given to process_artwork_file
MaxLines == 4
\* most runs of process_artwork_file on one description file
MaxRuns == 2
\* longest field text, counted in pieces, given to the field conversions
MaxFieldPieces == 3

(***************************************************************************)
(* Characters.                                                             *)
(***************************************************************************)
UpperSeq == <<"A","B","C","D","E","F","G","H","I","J","K","L","M",
              "N","O","P","Q","R","S","T","U","V","W","X","Y","Z">>
LowerSeq == <<"a","b","c","d","e","f","g","h","i","j","k","l","m",
              "n","o","p","q","r","s","t","u","v","w","x","y","z">>
DigitSeq == <<"0","1","2","3","4","5","6","7","8","9">>

\* the characters of the model in code-point order
CharOrder == <<"\t", "\n", " ", "$", ",", "-", ".", "/">> \o DigitSeq \o UpperSeq
             \o <<"_">> \o LowerSeq

Range(s) == {s[i] : i \in DOMAIN s}

Chars == Range(CharOrder)

\* ord()
Ord == [c \in Chars |-> CHOOSE i \in DOMAIN CharOrder : CharOrder[i] = c]

AlnumChars == Range(UpperSeq) \cup Range(LowerSeq) \cup Range(DigitSeq)

\* str.isalnum of one character
IsAlnum(c) == c \in AlnumChars

\* \w of a Python str pattern: alphanumeric or underscore
IsWord(c) == IsAlnum(c) \/ c = "_"

\* \s of a Python str pattern, str.strip's whitespace
IsSpace(c) == c \in {" ", "\t", "\n"}

LowerChar ==
    [c \in Chars |->
        IF \E i \in DOMAIN UpperSeq : UpperSeq[i] = c
        THEN LowerSeq[CHOOSE i \in DOMAIN UpperSeq : UpperSeq[i] = c]
        ELSE c]

\* str.lower
lower(s) == [i \in 1..Len(s) |-> LowerChar[s[i]]]

\* str.strip
strip(s) ==
    LET keep == {i \in 1..Len(s) : ~IsSpace(s[i])}
    IN  IF keep = {} THEN <<>>
        ELSE SubSeq(s, CHOOSE i \in keep : \A j \in keep : i <= j,
                       CHOOSE i \in keep : \A j \in keep : j <= i)

\* s < t in Python's string order
RECURSIVE StrLess(_, _)
StrLess(s, t) ==
    IF t = <<>> THEN FALSE
    ELSE IF s = <<>> THEN TRUE
    ELSE IF s[1] # t[1] THEN Ord[s[1]] < Ord[t[1]]
    ELSE StrLess(Tail(s), Tail(t))

\* all sequences over S of length at most n
SeqsUpTo(S, n) == UNION {[1..k -> S] : k \in 0..n}

(***************************************************************************)
(* stripDirStringToImageFormat                                             *)
(***************************************************************************)
Prefix == <<"L","i","n","d","s","e","y","A","y","r","e","s","_">>

\* the outcome of a call: a raised exception or a returned value
Raise(e) == [raised |-> TRUE, exc |-> e, value |-> <<>>]
Return(v) == [raised |-> FALSE, exc |-> "", value |-> v]

\* index of the first "-" of s, 0 when there is none
FirstDash(s) ==
    LET at == {i \in 1..Len(s) : s[i] = "-"}
    IN  IF at = {} THEN 0 ELSE CHOOSE i \in at : \A j \in at : i <= j

\* re.sub(r'[-_\W]+', '', rest)
CleanRest(rest) ==
    SelectSeq(rest, LAMBDA c : ~(c = "-" \/ c = "_" \/ ~IsWord(c)))

\* stripDirStringToImageFormat without the len(parts) < 2 check: a name
\* without a dash is cleaned as a whole
stripWithoutDashCheck(input_str) ==
    LET d == FirstDash(input_str)
    IN  Return(Prefix \o CleanRest(SubSeq(input_str, d + 1, Len(input_str))))

\* stripDirStringToImageFormat with the pattern r'\W+': underscores stay
stripKeepingUnderscores(input_str) ==
    LET d == FirstDash(input_str)
    IN  IF d = 0
        THEN Raise("ValueError")
        ELSE Return(Prefix \o SelectSeq(SubSeq(input_str, d + 1, Len(input_str)),
                                        IsWord))

stripDirStringToImageFormat(input_str) ==
    LET d == FirstDash(input_str)
    IN  IF d = 0
        THEN Raise("ValueError")
        ELSE Return(Prefix \o CleanRest(SubSeq(input_str, d + 1, Len(input_str))))

(***************************************************************************)
(* The title check of get_valid_art_directories:                           *)
(*   re.search(r'Title\s*\n[ \t]+([^\n]+)', txt_content)                   *)
(***************************************************************************)
TitleWord == <<"T","i","t","l","e">>

IsBlankChar(c) == c \in {" ", "\t"}

\* the lengths [ \t]+ can take at r so that ([^\n]+) still has a character
IndentLens(s, r) ==
    {m \in 1..(Len(s) - r) :
        /\ \A i \in r..(r + m - 1) : IsBlankChar(s[i])
        /\ s[r + m] # "\n"}

\* the lengths \s* can take at q so that \n[ \t]+([^\n]+) matches after it
GapLens(s, q) ==
    {k \in 0..(Len(s) - q) :
        /\ \A i \in q..(q + k - 1) : IsSpace(s[i])
        /\ s[q + k] = "\n"
        /\ IndentLens(s, q + k + 1) # {}}

Max(S) == CHOOSE x \in S : \A y \in S : y <= x
Min(S) == CHOOSE x \in S : \A y \in S : x <= y

\* whether the pattern matches with its first character at p
MatchesAt(s, p) ==
    /\ p + 4 <= Len(s)
    /\ SubSeq(s, p, p + 4) = TitleWord
    /\ GapLens(s, p + 5) # {}

\* group(1) of the match at p: the quantifiers are greedy, so \s* takes the
\* longest gap, [ \t]+ the longest indentation, [^\n]+ the rest of the line
GroupAt(s, p) ==
    LET k == Max(GapLens(s, p + 5))
        r == p + 5 + k + 1
        g == r + Max(IndentLens(s, r))
        stops == {i \in g..Len(s) : s[i] = "\n"}
        e == IF stops = {} THEN Len(s) ELSE Min(stops) - 1
    IN  SubSeq(s, g, e)

\* re.search: the leftmost match, or None
TitleSearch(txt_content) ==
    LET at == {p \in 1..Len(txt_content) : MatchesAt(txt_content, p)}
    IN  IF at = {} THEN [matched |-> FALSE, group |-> <<>>]
        ELSE [matched |-> TRUE, group |-> GroupAt(txt_content, Min(at))]

\* lines 60-64: hasTitle and title (title is None, here <<>>, without a title)
TitleCheck(txt_content) ==
    LET title_match == TitleSearch(txt_content)
    IN  IF title_match.matched /\ strip(title_match.group) # <<>>
        THEN [hasTitle |-> TRUE, title |-> strip(title_match.group)]
        ELSE [hasTitle |-> FALSE, title |-> <<>>]

(***************************************************************************)
(* The directory tree: every subdirectory has a description file           *)
(* <dirname>.txt (absent, unreadable, or with a text) and a listing of its *)
(* other entries in iteration order, each decodable by PIL or not.         *)
(***************************************************************************)
Dir1 == <<"1","-","F","o">>
DirNoDash == <<"2","F","o">>
Dir3 == <<"3","-","F","_","o">>
DirNames == {Dir1, DirNoDash, Dir3}

NameExact == Prefix \o <<"F","o",".","j","p","g">>
NameCase == lower(Prefix) \o <<"f","o",".","J","P","G">>
NameOther == <<"x",".","p","n","g">>

Entries == {[name |-> NameExact, image |-> TRUE],
            [name |-> NameExact, image |-> FALSE],
            [name |-> NameCase, image |-> TRUE],
            [name |-> NameOther, image |-> TRUE]}

\* listings of entries with different names
Listings ==
    {l \in SeqsUpTo(Entries, MaxFiles) :
        \A i, j \in DOMAIN l : i # j => l[i].name # l[j].name}

TextWithTitle == TitleWord \o <<"\n", "\t", "F", "o", "\n">>
TextNoTitle == TitleWord \o <<"\n">>

NoTxt == [exists |-> FALSE, readable |-> FALSE, content |-> <<>>]
Descriptions == {NoTxt,
                 [exists |-> TRUE, readable |-> FALSE, content |-> <<>>],
                 [exists |-> TRUE, readable |-> TRUE, content |-> TextWithTitle],
                 [exists |-> TRUE, readable |-> TRUE, content |-> TextNoTitle]}

RECURSIVE TotalFiles(_)
TotalFiles(l) ==
    IF DOMAIN l = {} THEN 0
    ELSE LET d == CHOOSE x \in DOMAIN l : TRUE
         IN  Len(l[d]) + TotalFiles([x \in DOMAIN l \ {d} |-> l[x]])

\* whether tree has at most MaxDirs subdirectories and MaxFiles entries in all
ListingsOver(D) == {l \in [D -> Listings] : TotalFiles(l) <= MaxFiles}

DirSets == {D \in SUBSET DirNames : Cardinality(D) <= MaxDirs}

\* the tree with descriptions t and listings l
Tree(t, l) == [d \in DOMAIN t |-> [txt |-> t[d], files |-> l[d]]]

(***************************************************************************)
(* get_valid_art_directories                                               *)
(***************************************************************************)
DotTxt == <<".","t","x","t">>

\* pathlib's PurePath.suffix
suffix(name) ==
    LET dots == {i \in 1..Len(name) : name[i] = "."}
    IN  IF dots = {} THEN <<>>
        ELSE IF 1 < Max(dots) /\ Max(dots) < Len(name)
             THEN SubSeq(name, Max(dots), Len(name))
             ELSE <<>>

NoPath == [dir |-> <<>>, name |-> <<>>]

\* sorted(art_dirs, key=lambda x: x.name.lower()) of an iterdir() in any order
SortedListings(D) ==
    {l \in [1..Cardinality(D) -> D] :
        /\ \A i, j \in DOMAIN l : i # j => l[i] # l[j]
        /\ \A i \in DOMAIN l : i > 1 => ~StrLess(lower(l[i]), lower(l[i - 1]))}

\* lines 69-84: the decodable non-.txt entries of dir_path, in iteration order
RECURSIVE OpenedImages(_, _)
OpenedImages(dir_name, listing) ==
    IF listing = <<>> THEN <<>>
    ELSE LET file_path == Head(listing)
             rest == OpenedImages(dir_name, Tail(listing))
         IN  IF lower(suffix(file_path.name)) # DotTxt /\ file_path.image
             THEN <<[dir |-> dir_name, name |-> file_path.name]>> \o rest
             ELSE rest

\* line 90-91: whether img_path carries the expected image name
NameMatches(image_match_to_dir, img_path) ==
    lower(image_match_to_dir \o lower(suffix(img_path.name))) = lower(img_path.name)

\* lines 35-98: the checks of one loop iteration on directory dir_name, entered
\* with the list valid_images as the earlier iterations left it
LoopChecks(tree, dir_name, images) ==
    LET txt == tree[dir_name].txt
        check == IF txt.exists /\ txt.readable
                 THEN TitleCheck(txt.content)
                 ELSE [hasTitle |-> FALSE, title |-> <<>>]
        opened == OpenedImages(dir_name, tree[dir_name].files)
        all_images == images \o opened
        has_img == opened # <<>>
        base == stripDirStringToImageFormat(dir_name)
        hits == IF has_img /\ ~base.raised
                THEN {i \in DOMAIN all_images : NameMatches(base.value, all_images[i])}
                ELSE {}
    IN  [raised |-> has_img /\ base.raised,
         hasTxtFile |-> txt.exists,
         hasImgFile |-> has_img,
         hasTitle |-> check.hasTitle,
         hasMatchImage |-> hits # {},
         title |-> check.title,
         large_image_path |-> IF hits # {} THEN all_images[Min(hits)] ELSE NoPath,
         valid_images |-> all_images]

\* line 101 without the title: valid with a text file and a matched image
IsValidWithoutTitle(c) == c.hasTxtFile /\ c.hasImgFile /\ c.hasMatchImage

\* line 101
IsValid(c) == c.hasTxtFile /\ c.hasImgFile /\ c.hasMatchImage /\ c.hasTitle

\* lines 115 and 117 without their first conjunct: buckets filled whenever the
\* check did not pass
InMissingTitleUnguarded(c) == ~c.hasTitle

InMissingMatchedImgUnguarded(c) == ~c.hasMatchImage

\* lines 111-118: the conditions of the four reason buckets
InMissingTxt(c) == ~c.hasTxtFile

InMissingImg(c) == ~c.hasImgFile

InMissingTitle(c) == c.hasTxtFile /\ ~c.hasTitle

InMissingMatchedImg(c) == c.hasImgFile /\ ~c.hasMatchImage

AppendIf(cond, list, x) == IF cond THEN Append(list, x) ELSE list

NoChecks == [raised |-> FALSE, hasTxtFile |-> FALSE, hasImgFile |-> FALSE,
             hasTitle |-> FALSE, hasMatchImage |-> FALSE, title |-> <<>>,
             large_image_path |-> NoPath, valid_images |-> <<>>]

FnIdle == fpc = "idle" /\ arg = <<>> /\ ret = Return(<<>>)

FileIdle ==
    /\ file = <<>>
    /\ original = <<>>
    /\ image = <<>>
    /\ runs = 0
    /\ outcome = "idle"

MergeIdle ==
    /\ mpc = "idle"
    /\ artworks = <<>>
    /\ pos = 0
    /\ conn = <<>>
    /\ stats = <<>>
    /\ dry_run = FALSE
    /\ log = <<>>

Init ==
    /\ MergeIdle
    /\ \E D \in DirSets :
          \E t \in [D -> Descriptions], l \in ListingsOver(D) : fs = Tree(t, l)
    /\ pc = "start"
    /\ art_dirs = <<>>
    /\ idx = 0
    /\ valid_art_info = <<>>
    /\ invalid_art_info = <<>>
    /\ missing_txt = <<>>
    /\ missing_img = <<>>
    /\ missing_title = <<>>
    /\ missing_matched_img = <<>>
    /\ valid_images = <<>>
    /\ loc = NoChecks
    /\ FnIdle
    /\ FileIdle

\* lines 23-32
Start ==
    /\ pc = "start"
    /\ art_dirs' \in SortedListings(DOMAIN fs)
    /\ pc' = "loop"
    /\ UNCHANGED <<fs, idx, valid_art_info, invalid_art_info, missing_txt,
                   missing_img, missing_title, missing_matched_img,
                   valid_images, loc, fnVars, fileVars, mergeVars>>

\* lines 34-128: one iteration of the for loop that runs to its end
Iterate ==
    /\ pc = "loop"
    /\ idx < Len(art_dirs)
    /\ LET dir_name == art_dirs[idx + 1]
           c == LoopChecks(fs, dir_name, valid_images)
       IN  /\ ~c.raised
           /\ loc' = c
           /\ valid_images' = c.valid_images
           /\ IF IsValid(c)
              THEN /\ valid_art_info' =
                         Append(valid_art_info,
                                [dir_path |-> dir_name, title |-> c.title,
                                 large_image |-> c.large_image_path])
                   /\ UNCHANGED <<invalid_art_info, missing_txt, missing_img,
                                  missing_title, missing_matched_img>>
              ELSE /\ invalid_art_info' = Append(invalid_art_info, dir_name)
                   /\ missing_txt' = AppendIf(InMissingTxt(c), missing_txt, dir_name)
                   /\ missing_img' = AppendIf(InMissingImg(c), missing_img, dir_name)
                   /\ missing_title' =
                         AppendIf(InMissingTitle(c), missing_title, dir_name)
                   /\ missing_matched_img' =
                         AppendIf(InMissingMatchedImg(c), missing_matched_img, dir_name)
                   /\ UNCHANGED valid_art_info
    /\ idx' = idx + 1
    /\ UNCHANGED <<fs, pc, art_dirs, fnVars, fileVars, mergeVars>>

\* lines 34-86: an iteration in which stripDirStringToImageFormat raises; the
\* ValueError is caught nowhere and leaves get_valid_art_directories
IterateRaises ==
    /\ pc = "loop"
    /\ idx < Len(art_dirs)
    /\ LET c == LoopChecks(fs, art_dirs[idx + 1], valid_images)
       IN  /\ c.raised
           /\ loc' = c
           /\ valid_images' = c.valid_images
    /\ pc' = "raised"
    /\ UNCHANGED <<fs, art_dirs, idx, valid_art_info, invalid_art_info,
                   missing_txt, missing_img, missing_title, missing_matched_img,
                   fnVars, fileVars, mergeVars>>

\* lines 130-163
ReturnScan ==
    /\ pc = "loop"
    /\ idx = Len(art_dirs)
    /\ pc' = "done"
    /\ UNCHANGED <<fs, art_dirs, idx, valid_art_info, invalid_art_info,
                   missing_txt, missing_img, missing_title, missing_matched_img,
                   valid_images, loc, fnVars, fileVars, mergeVars>>

Next == Start \/ Iterate \/ IterateRaises \/ ReturnScan

Spec == Init /\ [][Next]_vars

(***************************************************************************)
(* Single calls of the pure functions, on inputs drawn from bounded sets.  *)
(***************************************************************************)
ScanIdle ==
    /\ fs = <<>>
    /\ pc = "idle"
    /\ art_dirs = <<>>
    /\ idx = 0
    /\ valid_art_info = <<>>
    /\ invalid_art_info = <<>>
    /\ missing_txt = <<>>
    /\ missing_img = <<>>
    /\ missing_title = <<>>
    /\ missing_matched_img = <<>>
    /\ valid_images = <<>>
    /\ loc = NoChecks

\* directory names: short strings over a few characters, and the name of the
\* documentation's example
NameChars == {"4", "-", "A", "b", "_", " ", "."}
ExampleDir == <<"4","2","-","A","n","c","i","e","n","t","_","M","e","c","h">>
ExampleBasename == Prefix \o <<"A","n","c","i","e","n","t","M","e","c","h">>
NameInputs == SeqsUpTo(NameChars, MaxNameLen) \cup {ExampleDir}

InitStrip ==
    /\ MergeIdle
    /\ ScanIdle
    /\ FileIdle
    /\ fpc = "call"
    /\ arg \in NameInputs
    /\ ret = Return(<<>>)

CallStrip ==
    /\ fpc = "call"
    /\ ret' = stripDirStringToImageFormat(arg)
    /\ fpc' = "return"
    /\ UNCHANGED <<arg, scanVars, fileVars, mergeVars>>

SpecStrip == InitStrip /\ [][CallStrip]_vars

\* description texts: at most MaxTokens of these pieces, concatenated
Tokens == {TitleWord, <<"S">>, <<"F">>, <<" ">>, <<"\t">>, <<"\n">>}

RECURSIVE Concat(_)
Concat(pieces) ==
    IF pieces = <<>> THEN <<>> ELSE Head(pieces) \o Concat(Tail(pieces))

InitTitle ==
    /\ MergeIdle
    /\ ScanIdle
    /\ FileIdle
    /\ fpc = "call"
    /\ \E pieces \in SeqsUpTo(Tokens, MaxTokens) : arg = Concat(pieces)
    /\ ret = [hasTitle |-> FALSE, title |-> <<>>]

CallTitle ==
    /\ fpc = "call"
    /\ ret' = TitleCheck(arg)
    /\ fpc' = "return"
    /\ UNCHANGED <<arg, scanVars, fileVars, mergeVars>>

SpecTitle == InitTitle /\ [][CallTitle]_vars

(***************************************************************************)
(* Properties of stripDirStringToImageFormat (SpecStrip).                  *)
(***************************************************************************)
HasDash(s) == \E i \in DOMAIN s : s[i] = "-"

\* the text after the first "-" of a string that has one
RECURSIVE AfterFirstDash(_)
AfterFirstDash(s) == IF Head(s) = "-" THEN Tail(s) ELSE AfterFirstDash(Tail(s))

\* the letters and digits of s, in their order and case
RECURSIVE LettersAndDigits(_)
LettersAndDigits(s) ==
    IF s = <<>> THEN <<>>
    ELSE IF IsAlnum(Head(s)) THEN <<Head(s)>> \o LettersAndDigits(Tail(s))
    ELSE LettersAndDigits(Tail(s))

\* C5: for every directory name without a "-", stripDirStringToImageFormat
\* raises ValueError and returns no basename.
C5_NoDashRaisesValueError ==
    (fpc = "return" /\ ~HasDash(arg)) =>
        (ret.raised /\ ret.exc = "ValueError" /\ ret.value = <<>>)

C5_Witness ==
    fpc = "return" /\ arg = <<"4", "A", "_", "b">> /\ ret.raised

\* C6: for every directory name with a "-", stripDirStringToImageFormat returns
\* "LindseyAyres_" followed by the letters and digits of the text after the
\* first "-", in their order and case; "42-Ancient_Mech" gives
\* "LindseyAyres_AncientMech".
C6_BasenameIsPrefixPlusAlnum ==
    (fpc = "return" /\ HasDash(arg)) =>
        /\ ~ret.raised
        /\ ret.value = Prefix \o LettersAndDigits(AfterFirstDash(arg))
        /\ (arg = ExampleDir => ret.value = ExampleBasename)

C6_Witness ==
    /\ fpc = "return"
    /\ arg = ExampleDir
    /\ ret = Return(ExampleBasename)

(***************************************************************************)
(* Properties of the title check (SpecTitle).                              *)
(***************************************************************************)
\* str.split("\n")
RECURSIVE SplitLines(_)
SplitLines(s) ==
    LET nl == {i \in 1..Len(s) : s[i] = "\n"}
    IN  IF nl = {} THEN <<s>>
        ELSE <<SubSeq(s, 1, Min(nl) - 1)>>
             \o SplitLines(SubSeq(s, Min(nl) + 1, Len(s)))

\* a line made of the word Title and, possibly, trailing whitespace
IsTitleHeader(line) ==
    /\ Len(line) >= 5
    /\ SubSeq(line, 1, 5) = TitleWord
    /\ \A i \in 6..Len(line) : IsSpace(line[i])

IsBlankLine(line) == \A i \in DOMAIN line : IsSpace(line[i])

\* a line that begins with a tab or a space and has non-whitespace content
IsIndentedContent(line) ==
    line # <<>> /\ IsBlankChar(line[1]) /\ ~IsBlankLine(line)

\* the lines that follow header line i after zero or more blank lines and
\* carry its title
TitleLines(lines, i) ==
    {j \in (i + 1)..Len(lines) :
        /\ \A k \in (i + 1)..(j - 1) : IsBlankLine(lines[k])
        /\ IsIndentedContent(lines[j])}

HeadersWithTitle(lines) ==
    {i \in DOMAIN lines : IsTitleHeader(lines[i]) /\ TitleLines(lines, i) # {}}

\* C10: the title check passes if and only if the text has a line consisting
\* only of the word Title (with optional trailing whitespace) followed, after
\* zero or more blank lines, by an indented line with non-whitespace content;
\* the title is that line's trimmed content. A Title at the end of a longer
\* word or line is no header.
C10_TitleCheckIsHeaderLineRule ==
    fpc = "return" =>
        LET lines == SplitLines(arg)
            headers == HeadersWithTitle(lines)
        IN  /\ ret.hasTitle <=> headers # {}
            /\ ret.hasTitle =>
                 ret.title = strip(lines[Min(TitleLines(lines, Min(headers)))])

(***************************************************************************)
(* Properties of get_valid_art_directories (Spec).                         *)
(***************************************************************************)
\* the directories whose loop iteration has finished
Processed == {art_dirs[i] : i \in 1..idx}

ValidDirs == {valid_art_info[i].dir_path : i \in DOMAIN valid_art_info}
InvalidDirs == Range(invalid_art_info)

Occurrences(list, x) == Cardinality({i \in DOMAIN list : list[i] = x})
ValidOccurrences(d) ==
    Cardinality({i \in DOMAIN valid_art_info : valid_art_info[i].dir_path = d})

\* the checks of section 4.1, read off the directory tree
TxtFilePresent(d) == fs[d].txt.exists
TitlePresent(d) ==
    fs[d].txt.exists /\ fs[d].txt.readable /\ TitleCheck(fs[d].txt.content).hasTitle
ImagePresent(d) == \E i \in DOMAIN fs[d].files : fs[d].files[i].image

\* an iteration has finished and its locals describe directory art_dirs[idx]
IterationDone == pc \in {"loop", "done"} /\ idx > 0

C8_NoImageMeansMissingImgOnly ==
    \A d \in Processed :
        (TxtFilePresent(d) /\ TitlePresent(d) /\ ~ImagePresent(d)) =>
            /\ d \in InvalidDirs
            /\ d \notin ValidDirs
            /\ d \in Range(missing_img)
            /\ d \notin Range(missing_matched_img)

C8_Witness ==
    /\ pc = "done"
    /\ \E d \in Processed :
         /\ TxtFilePresent(d) /\ TitlePresent(d) /\ ~ImagePresent(d)
         /\ fs[d].files # <<>>
         /\ d \in Range(missing_img)

Alone(d) == LoopChecks(fs, d, <<>>)

\* C2: the classification of a directory, its reason buckets and its primary
\* image depend on that directory's name and contents alone, so they are what a
\* scan of the directory on its own gives; the primary image of a valid
\* directory is a file of that directory.
C2_EachDirectoryOnItsOwn ==
    /\ \A d \in Processed :
         /\ d \in ValidDirs <=> IsValid(Alone(d))
         /\ d \in Range(missing_matched_img) <=>
              (~IsValid(Alone(d)) /\ InMissingMatchedImg(Alone(d)))
    /\ \A i \in DOMAIN valid_art_info :
         /\ valid_art_info[i].large_image = Alone(valid_art_info[i].dir_path).large_image_path
         /\ valid_art_info[i].large_image.dir = valid_art_info[i].dir_path

\* C3: a directory name without a dash never aborts the scan: the scan of a
\* tree that holds such a directory with a decodable image still returns.
C3_ScanNeverAborts == pc # "raised"

\* C4: every scanned directory whose name has no dash is reported as a
\* structural error, with or without a decodable image; none is classified
\* into the ordinary lists and buckets.
C4_NoDashIsNeverClassified ==
    \A d \in Processed : ~HasDash(d) => d \notin ValidDirs \cup InvalidDirs

\* the candidate images of directory d that carry the expected name: the
\* expected basename followed by the candidate's own extension, ignoring case
OwnMatches(d) ==
    LET own == OpenedImages(d, fs[d].files)
        expected == stripDirStringToImageFormat(d).value
    IN  SelectSeq(own, LAMBDA img : lower(img.name) = lower(expected \o suffix(img.name)))

\* C7: for a directory with a decodable image, the matched-image check passes
\* if and only if a candidate image of that directory carries the expected
\* name, and the primary image is the first such candidate.
C7_MatchIsAmongOwnCandidates ==
    (IterationDone /\ ImagePresent(art_dirs[idx])) =>
        /\ loc.hasMatchImage <=> OwnMatches(art_dirs[idx]) # <<>>
        /\ loc.hasMatchImage => loc.large_image_path = Head(OwnMatches(art_dirs[idx]))

(***************************************************************************)
(* parse_artwork_file (merge_artworks.py; import_artwork.py has the same   *)
(* statements).                                                            *)
(***************************************************************************)
\* str.rstrip
rstrip(s) ==
    LET keep == {i \in 1..Len(s) : ~IsSpace(s[i])}
    IN  IF keep = {} THEN <<>> ELSE SubSeq(s, 1, Max(keep))

\* str.startswith
startswith(s, prefix) ==
    Len(s) >= Len(prefix) /\ SubSeq(s, 1, Len(prefix)) = prefix

FourSpaces == <<" ", " ", " ", " ">>

\* line.startswith('\t') or line.startswith('    ')
IsIndented(line) == startswith(line, <<"\t">>) \/ startswith(line, FourSpaces)

\* [A-Za-z]
IsLetter(c) == c \in Range(UpperSeq) \cup Range(LowerSeq)

\* the length of the longest run of letters at the start of s
RECURSIVE LetterRun(_)
LetterRun(s) ==
    IF s # <<>> /\ IsLetter(Head(s)) THEN 1 + LetterRun(Tail(s)) ELSE 0

\* re.match(r'^([A-Za-z]+)($|\s.*)', line): the letters are taken greedily and
\* a shorter run is followed by a letter, so only the longest run can match
FieldMatch(line) ==
    LET n == LetterRun(line)
    IN  IF n >= 1 /\ (n = Len(line) \/ IsSpace(line[n + 1]))
        THEN [matched |-> TRUE, group1 |-> SubSeq(line, 1, n),
              group2 |-> SubSeq(line, n + 1, Len(line))]
        ELSE [matched |-> FALSE, group1 |-> <<>>, group2 |-> <<>>]

\* the pattern matched against the line with its leading whitespace removed
HeaderMatchTrimmed(line) == FieldMatch(strip(line))

\* line 161: the pattern is matched against the right-stripped line
HeaderMatch(line) == FieldMatch(line)

\* lines 159-162: whether the right-stripped line opens a new field
IsHeaderLine(line) == ~IsIndented(line) /\ HeaderMatch(line).matched

\* sep.join(list)
RECURSIVE join(_, _)
join(sep, list) ==
    IF list = <<>> THEN <<>>
    ELSE IF Len(list) = 1 THEN list[1]
    ELSE list[1] \o sep \o join(sep, Tail(list))

\* the field value with the content lines joined by spaces
FieldValueSpaced(field_content) == strip(join(<<" ">>, field_content))

\* lines 165 and 186: '\n'.join(field_content).strip()
FieldValue(field_content) == strip(join(<<"\n">>, field_content))

\* a store that keeps the value a key already has
StoreFirst(artwork, key, value) ==
    [k \in DOMAIN artwork \cup {key} |->
        IF k \in DOMAIN artwork THEN artwork[k] ELSE value]

\* artwork[key] = value
Store(artwork, key, value) ==
    [k \in DOMAIN artwork \cup {key} |-> IF k = key THEN value ELSE artwork[k]]

\* a flush that stores nothing for a field without content
FlushNonEmpty(st) ==
    IF st.current_field # <<>> /\ st.field_content # <<>>
    THEN [st EXCEPT !.artwork = Store(st.artwork, lower(st.current_field),
                                      FieldValue(st.field_content)),
                    !.field_content = <<>>]
    ELSE [st EXCEPT !.field_content = <<>>]

\* lines 164-166 and 185-186: save the current field, if there is one
Flush(st) ==
    IF st.current_field # <<>>
    THEN [st EXCEPT !.artwork = Store(st.artwork, lower(st.current_field),
                                      FieldValue(st.field_content)),
                    !.field_content = <<>>]
    ELSE st

\* the inline content without the test for the hyphen
InlineContentAny(remaining) ==
    IF remaining # <<>> THEN <<remaining>> ELSE <<>>

\* lines 175-177: the content a header line itself contributes
InlineContent(remaining) ==
    IF remaining # <<>> /\ ~startswith(remaining, <<"-">>)
    THEN <<remaining>>
    ELSE <<>>

\* lines 152-182: the loop body on one line of the file; current_field is
\* None, here <<>>, before the first header
ParseLine(st, raw) ==
    LET line == rstrip(raw)
    IN  IF strip(line) = <<>> THEN st
        ELSE IF ~IsIndented(line)
        THEN IF IsHeaderLine(line)
             THEN LET field_match == HeaderMatch(line)
                      saved == Flush(st)
                  IN  [artwork |-> saved.artwork,
                       current_field |-> field_match.group1,
                       field_content |->
                           saved.field_content
                           \o InlineContent(strip(field_match.group2))]
             ELSE st
        ELSE IF st.current_field # <<>>
             THEN [st EXCEPT !.field_content = Append(@, strip(line))]
             ELSE st

RECURSIVE ParseLines(_, _)
ParseLines(st, lines) ==
    IF lines = <<>> THEN st ELSE ParseLines(ParseLine(st, Head(lines)), Tail(lines))

\* "for line in file": the pieces of the text ended by "\n", and what follows
\* the last "\n" when the text does not end with one
RECURSIVE FileLines(_)
FileLines(text) ==
    LET nl == {i \in 1..Len(text) : text[i] = "\n"}
    IN  IF text = <<>> THEN <<>>
        ELSE IF nl = {} THEN <<text>>
        ELSE <<SubSeq(text, 1, Min(nl))>> \o FileLines(SubSeq(text, Min(nl) + 1, Len(text)))

\* lines 146-191; the dict is a function from keys to values
parse_artwork_file(text) ==
    Flush(ParseLines([artwork |-> <<>>, current_field |-> <<>>,
                      field_content |-> <<>>],
                     FileLines(text))).artwork

\* description texts: at most MaxPieces of these pieces, concatenated, and the
\* documentation's example
Pieces == {<<"A">>, <<"b">>, <<" ">>, FourSpaces, <<"\t">>, <<"-">>, <<"\n">>}

ExampleText ==
    TitleWord \o <<"\n", "\t", "F","o","o"," ","B","a","r", "\n">>
    \o <<"A","r","t","D","e","s","c","r","i","p","t","i","o","n", "\n">>
    \o <<"\t", "H","e","l","l","o", "\n", "\t", "W","o","r","l","d", "\n">>

\* a header line with an explanation after a hyphen, and one content line
ExamplePriceText ==
    <<"O","r","i","g","i","n","a","l","P","r","i","c","e"," ","-"," ",
      "P","r","i","c","e"," ","o","f"," ","t","h","e"," ","o","r","i",
      "g","i","n","a","l",","," ","n","o","t"," ","t","h","e"," ","p",
      "r","i","n","t","\n","\t","1","0","0","\n">>

InitParse ==
    /\ MergeIdle
    /\ ScanIdle
    /\ FileIdle
    /\ fpc = "call"
    /\ \/ \E pieces \in SeqsUpTo(Pieces, MaxPieces) : arg = Concat(pieces)
       \/ arg \in {ExampleText, ExamplePriceText}
    /\ ret = <<>>

CallParse ==
    /\ fpc = "call"
    /\ ret' = parse_artwork_file(arg)
    /\ fpc' = "return"
    /\ UNCHANGED <<arg, scanVars, fileVars, mergeVars>>

SpecParse == InitParse /\ [][CallParse]_vars

(***************************************************************************)
(* The description text read line by line, as the claims about             *)
(* parse_artwork_file speak of it.                                         *)
(***************************************************************************)
\* the lines of the parsed text, each without its trailing whitespace
TextLines ==
    LET raw == FileLines(arg) IN [i \in 1..Len(raw) |-> rstrip(raw[i])]

\* one or more letters followed by the end of the line or whitespace
LettersThenGap(s) ==
    /\ LetterRun(s) >= 1
    /\ LetterRun(s) = Len(s) \/ IsSpace(s[LetterRun(s) + 1])

\* header rule: not indented by a tab or four spaces, and the line as it
\* stands (trailing whitespace apart) starts with the letters
StartsField(line) == ~IsIndented(line) /\ LettersThenGap(line)

\* header rule with the letters looked for after the leading whitespace
StartsFieldTrimmed(line) == ~IsIndented(line) /\ LettersThenGap(strip(line))

Headers == {i \in DOMAIN TextLines : StartsField(TextLines[i])}

HeadersTrimmed == {i \in DOMAIN TextLines : StartsFieldTrimmed(TextLines[i])}

\* the lower-cased field name of a header line
FieldNameOf(line) == lower(SubSeq(strip(line), 1, LetterRun(strip(line))))

\* what follows the field name on a header line, trimmed
AfterFieldName(line) ==
    strip(SubSeq(strip(line), LetterRun(strip(line)) + 1, Len(strip(line))))

\* the next header line after line i among the header lines H, or the end
NextHeaderNo(H, i) == Min({j \in H : j > i} \cup {Len(TextLines) + 1})

\* the trimmed content lines between header line i and the next header line
ContentLinesOf(H, i) ==
    LET between == SubSeq(TextLines, i + 1, NextHeaderNo(H, i) - 1)
        content == SelectSeq(between, IsIndented)
    IN  [j \in 1..Len(content) |-> strip(content[j])]

\* the inline content of a header line
InlineOf(line) ==
    IF AfterFieldName(line) = <<>> \/ AfterFieldName(line)[1] = "-"
    THEN <<>>
    ELSE <<AfterFieldName(line)>>

\* lines joined with newline characters, then trimmed
Joined(content) == strip(join(<<"\n">>, content))

\* the value declared by header line i
FieldContentOf(H, i) ==
    Joined(InlineOf(TextLines[i]) \o ContentLinesOf(H, i))

Declarations(H, k) == {i \in H : FieldNameOf(TextLines[i]) = k}

LastDeclaration(H, k) == Max(Declarations(H, k))

\* the mapping the header lines H declare, the last declaration of a name
\* giving its value
Declared(H) ==
    [k \in {FieldNameOf(TextLines[i]) : i \in H} |->
        FieldContentOf(H, LastDeclaration(H, k))]

Parsed == fpc = "return"

ExampleRecord ==
    [k \in {<<"t","i","t","l","e">>, lower(SubSeq(ExampleText, 16, 29))} |->
        IF k = <<"t","i","t","l","e">>
        THEN <<"F","o","o"," ","B","a","r">>
        ELSE <<"H","e","l","l","o","\n","W","o","r","l","d">>]

\* C11: every key of the returned mapping is the lower-cased name of a header
\* line, and its value is the content between that header line and the next
\* (inline content first, blank lines ignored) joined with newlines and
\* trimmed; the documentation's example yields title and artdescription
C11_ValueIsJoinedTrimmedContent ==
    Parsed =>
        /\ \A k \in DOMAIN ret :
              \E i \in Headers :
                  /\ FieldNameOf(TextLines[i]) = k
                  /\ ret[k] = FieldContentOf(Headers, i)
        /\ arg = ExampleText => ret = ExampleRecord

C11_Witness == Parsed /\ arg = ExampleText /\ ret = ExampleRecord

\* C12 as stated: the header lines are the lines that do not start with a tab
\* or four spaces and whose trimmed content starts with letters followed by
\* the end of the line or whitespace, lines beginning with one to three
\* spaces included
C12_HeaderRuleOnTrimmedContent == Parsed => ret = Declared(HeadersTrimmed)

\* C12: the header lines are the lines that do not start with a tab or four
\* spaces and that themselves start with letters followed by the end of the
\* line or whitespace; a line beginning with one to three spaces is no header
\* line and is ignored
C12_HeaderRuleOnLineStart == Parsed => ret = Declared(Headers)

\* "A" then " b": the second line opens no field
C12_Witness ==
    /\ Parsed
    /\ TextLines = << <<"A">>, <<" ", "b">> >>
    /\ DOMAIN ret = {<<"a">>}

\* C13: a field name declared more than once has one entry, whose value is
\* the content of the last declaration; the content of the earlier
\* declarations is discarded
C13_LastDeclarationWins ==
    Parsed =>
        \A i \in Headers, j \in Headers :
            (i < j /\ FieldNameOf(TextLines[i]) = FieldNameOf(TextLines[j])
                   /\ \A l \in Headers : l > j =>
                          FieldNameOf(TextLines[l]) # FieldNameOf(TextLines[j]))
            => /\ FieldNameOf(TextLines[j]) \in DOMAIN ret
               /\ ret[FieldNameOf(TextLines[j])] = FieldContentOf(Headers, j)

\* "A b" then "A": the earlier content b is gone
C13_Witness ==
    /\ Parsed
    /\ TextLines = << <<"A", " ", "b">>, <<"A">> >>
    /\ ret[<<"a">>] = <<>>

\* a header line without content of its own, followed by another header line
Contentless(i) ==
    /\ i \in Headers
    /\ NextHeaderNo(Headers, i) <= Len(TextLines)
    /\ InlineOf(TextLines[i]) = <<>>
    /\ ContentLinesOf(Headers, i) = <<>>

\* C14 as stated: a header line followed by another header line, with no
\* inline content and no content lines, yields a key whose value is the empty
\* string
C14_ContentlessFieldIsEmptyString ==
    Parsed =>
        \A i \in DOMAIN TextLines :
            Contentless(i) =>
                /\ FieldNameOf(TextLines[i]) \in DOMAIN ret
                /\ ret[FieldNameOf(TextLines[i])] = <<>>

\* C14: such a header line yields a key, present in the mapping, and the
\* value is the empty string when no later header line declares the name
\* again
C14_ContentlessFieldIsPresent ==
    Parsed =>
        \A i \in DOMAIN TextLines :
            Contentless(i) =>
                /\ FieldNameOf(TextLines[i]) \in DOMAIN ret
                /\ i = LastDeclaration(Headers, FieldNameOf(TextLines[i]))
                       => ret[FieldNameOf(TextLines[i])] = <<>>

\* "A" then "b": both keys, a with the empty string
C14_Witness ==
    /\ Parsed
    /\ TextLines = << <<"A">>, <<"b">> >>
    /\ DOMAIN ret = {<<"a">>, <<"b">>}
    /\ ret[<<"a">>] = <<>>

\* C15: the text after the field name on a header line, trimmed, is the first
\* content line of the field, unless it starts with a hyphen: then it adds
\* nothing to the value
C15_InlineContentUnlessHyphen ==
    Parsed =>
        \A k \in DOMAIN ret :
            LET i == LastDeclaration(Headers, k)
                rest == AfterFieldName(TextLines[i])
            IN  /\ (rest # <<>> /\ rest[1] = "-")
                       => ret[k] = Joined(ContentLinesOf(Headers, i))
                /\ (rest # <<>> /\ rest[1] # "-")
                       => /\ ret[k] = Joined(<<rest>> \o ContentLinesOf(Headers, i))
                          /\ startswith(ret[k], rest)

\* the OriginalPrice line with its explanation gives only the content line
C15_Witness ==
    /\ Parsed
    /\ arg = ExamplePriceText
    /\ AfterFieldName(TextLines[1])[1] = "-"
    /\ ret[lower(SubSeq(ExamplePriceText, 1, 13))] = <<"1", "0", "0">>

(***************************************************************************)
(* Python floats (IEEE 754 binary64, round to nearest, ties to even).      *)
(* A natural number is its sequence of digits in base 2^15, least          *)
(* significant first and without leading zero digits; a float is           *)
(* [m, e] with the value m * 2^e and 2^52 <= m < 2^53, or m = 0.           *)
(***************************************************************************)
Limb == 32768

RECURSIVE BigTrim(_)
BigTrim(a) ==
    IF a # <<>> /\ a[Len(a)] = 0 THEN BigTrim(SubSeq(a, 1, Len(a) - 1)) ELSE a

\* the digits of a natural number of the machine
BigOf(n) ==
    BigTrim(<<n % Limb, (n \div Limb) % Limb, n \div (Limb * Limb)>>)

\* -1, 0 or 1 as a < b, a = b or a > b
RECURSIVE BigCmp(_, _)
BigCmp(a, b) ==
    IF Len(a) # Len(b) THEN (IF Len(a) < Len(b) THEN -1 ELSE 1)
    ELSE IF a = <<>> THEN 0
    ELSE IF a[Len(a)] # b[Len(b)] THEN (IF a[Len(a)] < b[Len(b)] THEN -1 ELSE 1)
    ELSE BigCmp(BigTrim(SubSeq(a, 1, Len(a) - 1)), BigTrim(SubSeq(b, 1, Len(b) - 1)))

\* a * k + carry for k and carry below 2^15
RECURSIVE BigMulSmall(_, _, _)
BigMulSmall(a, k, carry) ==
    IF a = <<>> THEN (IF carry = 0 THEN <<>> ELSE <<carry>>)
    ELSE <<(Head(a) * k + carry) % Limb>>
         \o BigMulSmall(Tail(a), k, (Head(a) * k + carry) \div Limb)

\* a - b - borrow for a >= b + borrow, digit by digit
RECURSIVE BigSubDigits(_, _, _)
BigSubDigits(a, b, borrow) ==
    IF a = <<>> THEN <<>>
    ELSE LET d == Head(a) - (IF b = <<>> THEN 0 ELSE Head(b)) - borrow
         IN  <<d % Limb>>
             \o BigSubDigits(Tail(a), IF b = <<>> THEN <<>> ELSE Tail(b),
                             IF d < 0 THEN 1 ELSE 0)

BigSub(a, b) == BigTrim(BigSubDigits(a, b, 0))

\* the number of binary digits
BitLen(a) ==
    IF a = <<>> THEN 0
    ELSE 15 * (Len(a) - 1)
         + Min({k \in 1..15 : a[Len(a)] < 2 ^ k})

\* a * 2^n
BigShl(a, n) ==
    IF a = <<>> THEN <<>>
    ELSE [i \in 1..(n \div 15) |-> 0] \o BigMulSmall(a, 2 ^ (n % 15), 0)

\* a \div 2^n
BigShr(a, n) ==
    LET whole == SubSeq(a, (n \div 15) + 1, Len(a))
        r == n % 15
    IN  BigTrim([i \in 1..Len(whole) |->
                    (whole[i] \div 2 ^ r)
                    + (IF i < Len(whole) THEN (whole[i + 1] % 2 ^ r) * 2 ^ (15 - r)
                                         ELSE 0)])

Zero == [m |-> <<>>, e |-> 0]

\* the float nearest to a * 2^e, or to a value just above it when sticky
FRound(a, e, sticky) ==
    LET len == BitLen(a)
        s == len - 53
        q == BigShr(a, s)
        low == BigSub(a, BigShl(q, s))
        half == BigCmp(low, BigShl(<<1>>, s - 1))
        up == half = 1 \/ (half = 0 /\ (sticky \/ q[1] % 2 = 1))
        q1 == BigMulSmall(q, 1, 1)
    IN  IF a = <<>> THEN Zero
        ELSE IF s <= 0 THEN [m |-> BigShl(a, -s), e |-> e + s]
        ELSE IF ~up THEN [m |-> q, e |-> e + s]
        ELSE IF BitLen(q1) = 54 THEN [m |-> BigShr(q1, 1), e |-> e + s + 1]
        ELSE [m |-> q1, e |-> e + s]

\* float(n) of an int below 2^45
FloatOf(n) == FRound(BigOf(n), 0, FALSE)

\* the quotient and the remainder of num * 2^bits by den, for num < 2 * den:
\* binary long division
RECURSIVE LongDiv(_, _, _)
LongDiv(num, den, bits) ==
    LET before == LongDiv(num, den, bits - 1)
        rem == IF bits = 0 THEN num ELSE BigMulSmall(before.rem, 2, 0)
        quo == IF bits = 0 THEN <<>> ELSE before.quo
        ge == BigCmp(rem, den) >= 0
    IN  [quo |-> BigMulSmall(quo, 2, IF ge THEN 1 ELSE 0),
         rem |-> IF ge THEN BigSub(rem, den) ELSE rem]

\* the next n digits in base 2^15 of rem / den, for rem < den, least
\* significant first, and the remainder left
RECURSIVE FracDigits(_, _, _)
FracDigits(rem, den, n) ==
    IF n = 0 \/ rem = <<>> THEN [quo |-> [i \in 1..n |-> 0], rem |-> rem]
    ELSE LET d == LongDiv(BigMulSmall(rem, 2, 0), den, 14)
             rest == FracDigits(d.rem, den, n - 1)
         IN  [quo |-> rest.quo \o (IF d.quo = <<>> THEN <<0>> ELSE d.quo),
              rem |-> rest.rem]

\* x / y of floats, y not zero: 56 binary digits of the quotient of the
\* significands, the remainder deciding a tie
FDiv(x, y) ==
    LET int == LongDiv(x.m, y.m, 10)
        frac == FracDigits(int.rem, y.m, 3)
    IN  IF x.m = <<>> THEN Zero
        ELSE FRound(BigTrim(frac.quo \o int.quo), x.e - y.e - 55, frac.rem # <<>>)

\* abs(x - y) of floats
FAbsDiff(x, y) ==
    LET e == Min({x.e, y.e})
        a == BigShl(x.m, x.e - e)
        b == BigShl(y.m, y.e - e)
    IN  IF BigCmp(a, b) >= 0 THEN FRound(BigSub(a, b), e, FALSE)
        ELSE FRound(BigSub(b, a), e, FALSE)

\* x <= y of floats that are not negative
FLeq(x, y) ==
    LET e == Min({x.e, y.e})
    IN  x.m = <<>> \/ (y.m # <<>> /\
            BigCmp(BigShl(x.m, x.e - e), BigShl(y.m, y.e - e)) <= 0)

(***************************************************************************)
(* add_valid_ratios.py: the catalog of print sizes and the ratio matcher.  *)
(* A catalog dimension is written in tenths of an inch: 6.8 is 68.         *)
(***************************************************************************)
VALID_PRINT_SIZES == <<
    [label |-> "1:1", sizes |-> <<
         <<60, 60>>, <<80, 80>>, <<100, 100>>, <<120, 120>>, <<140, 140>>,
         <<160, 160>>, <<180, 180>>, <<200, 200>>, <<230, 230>>,
         <<240, 240>>, <<280, 280>>, <<300, 300>>, <<320, 320>>,
         <<360, 360>>, <<400, 400>>>>],
    [label |-> "2:3", sizes |-> <<
         <<40, 60>>, <<80, 120>>, <<120, 180>>, <<160, 240>>, <<200, 300>>,
         <<240, 360>>, <<320, 480>>, <<360, 540>>, <<400, 600>>,
         <<180, 270>>>>],
    [label |-> "3:4", sizes |-> <<
         <<60, 80>>, <<90, 120>>, <<120, 160>>, <<180, 240>>, <<240, 320>>,
         <<300, 400>>, <<360, 480>>>>],
    [label |-> "4:5", sizes |-> <<
         <<80, 100>>, <<120, 150>>, <<160, 200>>, <<200, 250>>,
         <<240, 300>>, <<360, 450>>, <<400, 500>>>>],
    [label |-> "Other", sizes |-> <<
         <<30, 70>>, <<40, 100>>, <<50, 70>>, <<50, 100>>, <<50, 120>>,
         <<68, 160>>, <<60, 120>>, <<80, 200>>, <<80, 240>>, <<80, 280>>,
         <<85, 110>>, <<90, 110>>, <<90, 180>>, <<100, 130>>, <<100, 170>>,
         <<100, 200>>, <<100, 240>>, <<100, 300>>, <<100, 360>>,
         <<110, 140>>, <<110, 170>>, <<110, 220>>, <<120, 140>>,
         <<120, 200>>, <<120, 240>>, <<120, 300>>, <<120, 360>>,
         <<130, 170>>, <<130, 190>>, <<140, 180>>, <<140, 200>>,
         <<140, 230>>, <<140, 240>>, <<140, 280>>, <<140, 360>>,
         <<140, 500>>, <<150, 300>>, <<160, 220>>, <<160, 270>>,
         <<160, 300>>, <<160, 320>>, <<160, 360>>, <<160, 370>>,
         <<160, 480>>, <<170, 200>>, <<170, 230>>, <<180, 200>>,
         <<180, 220>>, <<180, 260>>, <<180, 300>>, <<180, 360>>,
         <<180, 430>>, <<180, 450>>, <<180, 470>>, <<180, 500>>,
         <<180, 540>>, <<190, 270>>, <<200, 240>>, <<200, 260>>,
         <<200, 280>>, <<200, 330>>, <<200, 360>>, <<210, 300>>,
         <<200, 400>>, <<200, 600>>, <<220, 280>>, <<220, 300>>,
         <<220, 340>>, <<220, 360>>, <<240, 280>>, <<240, 380>>,
         <<240, 400>>, <<240, 450>>, <<240, 480>>, <<240, 560>>,
         <<240, 600>>, <<240, 650>>, <<240, 900>>, <<260, 340>>,
         <<260, 400>>, <<270, 300>>, <<270, 400>>, <<280, 360>>,
         <<280, 380>>, <<280, 400>>, <<280, 480>>, <<300, 500>>,
         <<300, 600>>, <<300, 750>>, <<320, 420>>, <<320, 440>>,
         <<320, 540>>, <<360, 400>>, <<360, 500>>, <<360, 600>>,
         <<360, 700>>, <<51, 71>>, <<79, 98>>, <<177, 236>>, <<236, 354>>,
         <<394, 551>>>>]
>>

\* line 66: the sizes of all groups, in the order of the groups
ALL_VALID_SIZES ==
    Concat([g \in DOMAIN VALID_PRINT_SIZES |-> VALID_PRINT_SIZES[g].sizes])

\* the float that a catalog dimension of t tenths denotes
Tenths(t) == FDiv(FloatOf(t), FloatOf(10))

\* line 119: print_w / print_h of every catalog size
PrintRatios ==
    [i \in DOMAIN ALL_VALID_SIZES |->
        FDiv(Tenths(ALL_VALID_SIZES[i][1]), Tenths(ALL_VALID_SIZES[i][2]))]

\* line 104: tolerance = 0.02
Tolerance == FDiv(FloatOf(2), FloatOf(100))

\* str(n) of a natural number
RECURSIVE Digits(_)
Digits(n) ==
    IF n < 10 THEN <<DigitSeq[n + 1]>>
    ELSE Digits(n \div 10) \o <<DigitSeq[(n % 10) + 1]>>

\* a dimension always written with one decimal
OneDecimal(t) == Digits(t \div 10) \o <<".">> \o Digits(t % 10)

\* lines 76-77: str(int(w)) if w == int(w) else str(w), of a dimension of t
\* tenths
DimStr(t) == IF t % 10 = 0 THEN Digits(t \div 10) ELSE OneDecimal(t)

\* lines 74-78
format_size(w, h) == DimStr(w) \o <<"x">> \o DimStr(h)

\* int of a string of digits
RECURSIVE IntOf(_)
IntOf(s) ==
    IF s = <<>> THEN 0
    ELSE 10 * IntOf(SubSeq(s, 1, Len(s) - 1))
         + (CHOOSE d \in 0..9 : DigitSeq[d + 1] = s[Len(s)])

\* float(s) of a dimension string, in tenths
TenthsOf(s) ==
    LET dot == {i \in DOMAIN s : s[i] = "."}
    IN  IF dot = {} THEN 10 * IntOf(s)
        ELSE 10 * IntOf(SubSeq(s, 1, Min(dot) - 1))
             + IntOf(SubSeq(s, Min(dot) + 1, Len(s)))

\* line 131: (float(x.split('x')[0]), float(x.split('x')[1]))
SizeKey(x) ==
    LET at == CHOOSE i \in DOMAIN x : x[i] = "x"
    IN  <<TenthsOf(SubSeq(x, 1, at - 1)), TenthsOf(SubSeq(x, at + 1, Len(x)))>>

\* the order of Python tuples of two numbers
KeyLess(k, l) == k[1] < l[1] \/ (k[1] = l[1] /\ k[2] < l[2])

\* an ordering of the strings as texts
RECURSIVE SortedAsText(_)
SortedAsText(S) ==
    IF S = {} THEN <<>>
    ELSE LET first == CHOOSE x \in S : \A y \in S \ {x} : StrLess(x, y)
         IN  <<first>> \o SortedAsText(S \ {first})

\* line 131: sorted(set(matches), key=...)
RECURSIVE SortedByKey(_)
SortedByKey(S) ==
    IF S = {} THEN <<>>
    ELSE LET first == CHOOSE x \in S :
                          \A y \in S \ {x} : ~KeyLess(SizeKey(y), SizeKey(x))
         IN  <<first>> \o SortedByKey(S \ {first})

\* a matcher that answers a zero height with an empty list
find_matching_or_nothing(artwork_w, artwork_h) ==
    IF artwork_h.m = <<>> \/ artwork_w.m = <<>> THEN Return(<<>>)
    ELSE LET artwork_ratio == FDiv(artwork_w, artwork_h)
             matches == {i \in DOMAIN ALL_VALID_SIZES :
                            FLeq(FDiv(FAbsDiff(artwork_ratio, PrintRatios[i]),
                                      artwork_ratio), Tolerance)}
         IN  Return(SortedByKey({format_size(ALL_VALID_SIZES[i][1],
                                             ALL_VALID_SIZES[i][2]) : i \in matches}))

\* lines 104-131; a float division by zero raises ZeroDivisionError: at line
\* 116 when artwork_h is zero, at line 122 when artwork_ratio is
find_matching_print_sizes(artwork_w, artwork_h) ==
    IF artwork_h.m = <<>> THEN Raise("ZeroDivisionError")
    ELSE LET artwork_ratio == FDiv(artwork_w, artwork_h)
             matches == {i \in DOMAIN ALL_VALID_SIZES :
                            FLeq(FDiv(FAbsDiff(artwork_ratio, PrintRatios[i]),
                                      artwork_ratio), Tolerance)}
         IN  IF artwork_ratio.m = <<>> THEN Raise("ZeroDivisionError")
             ELSE Return(SortedByKey({format_size(ALL_VALID_SIZES[i][1],
                                                  ALL_VALID_SIZES[i][2]) : i \in matches}))

\* math.gcd
RECURSIVE gcd(_, _)
gcd(a, b) == IF b = 0 THEN a ELSE gcd(b, a % b)

\* a simplification that divides only the width by the common divisor
calculate_ratio_width_only(width, height) ==
    LET w_int == width * 10
        h_int == height * 10
    IN  IF gcd(w_int, h_int) = 0 THEN Raise("ZeroDivisionError")
        ELSE Return(<<FDiv(FloatOf(w_int), FloatOf(gcd(w_int, h_int))),
                      FloatOf(h_int)>>)

\* lines 89-101, of an image's pixel width and height (integers): the
\* division by a zero gcd raises ZeroDivisionError
calculate_ratio(width, height) ==
    LET w_int == width * 10
        h_int == height * 10
    IN  IF gcd(w_int, h_int) = 0 THEN Raise("ZeroDivisionError")
        ELSE Return(<<FDiv(FloatOf(w_int), FloatOf(gcd(w_int, h_int))),
                      FDiv(FloatOf(h_int), FloatOf(gcd(w_int, h_int)))>>)

\* the pixel sizes of the images: all up to MaxDim, and the 1200 x 1800 of the
\* documentation
Queries == ((0..MaxDim) \X (0..MaxDim)) \cup {<<1200, 1800>>}

InitRatio ==
    /\ MergeIdle
    /\ ScanIdle
    /\ FileIdle
    /\ fpc = "call"
    /\ arg \in Queries
    /\ ret = <<>>

\* find_matching_print_sizes called with the width and height themselves
CallFindMatching ==
    /\ fpc = "call"
    /\ ret' = find_matching_print_sizes(FloatOf(arg[1]), FloatOf(arg[2]))
    /\ fpc' = "return"
    /\ UNCHANGED <<arg, scanVars, fileVars, mergeVars>>

\* process_artwork_file, line 181
CallCalculateRatio ==
    /\ fpc = "call"
    /\ ret' = calculate_ratio(arg[1], arg[2])
    /\ fpc' = "ratio"
    /\ UNCHANGED <<arg, scanVars, fileVars, mergeVars>>

\* process_artwork_file, line 184: the matcher gets the simplified pair
MatchSimplified ==
    /\ fpc = "ratio"
    /\ ~ret.raised
    /\ ret' = find_matching_print_sizes(ret.value[1], ret.value[2])
    /\ fpc' = "matched"
    /\ UNCHANGED <<arg, scanVars, fileVars, mergeVars>>

NextRatio == CallFindMatching \/ CallCalculateRatio \/ MatchSimplified

SpecRatio == InitRatio /\ [][NextRatio]_vars

(***************************************************************************)
(* Claims about the ratio matcher.                                         *)
(***************************************************************************)
\* a match list has been returned for the query itself
Matched == fpc = "return" /\ ~ret.raised

\* |w/h - a/b| / (w/h) <= 0.02 in exact arithmetic, for positive w, h, a, b:
\* the left side is |w*b - a*h| / (w*b)
WithinTwoPercent(w, h, a, b) ==
    50 * (IF w * b >= a * h THEN w * b - a * h ELSE a * h - w * b) <= w * b

\* the catalog sizes within 2% of the query's ratio, formatted
SizesWithinTwoPercent ==
    {format_size(ALL_VALID_SIZES[i][1], ALL_VALID_SIZES[i][2]) :
        i \in {j \in DOMAIN ALL_VALID_SIZES :
                  WithinTwoPercent(arg[1], arg[2],
                                   ALL_VALID_SIZES[j][1], ALL_VALID_SIZES[j][2])}}

\* C16: for a query (w, h) with w > 0 and h > 0 the returned sizes are exactly
\* the catalog sizes (pw, ph), of whatever group, with
\* |w/h - pw/ph| / (w/h) <= 0.02; (1200, 1800) gives 4x6 and 24x36 and
\* nothing further than 2% from 2:3
C16_MatchesIffWithinTwoPercent ==
    (fpc = "return" /\ arg[1] > 0 /\ arg[2] > 0) =>
        /\ ~ret.raised
        /\ Range(ret.value) = SizesWithinTwoPercent
        /\ arg = <<1200, 1800>> =>
               {<<"4", "x", "6">>, <<"2", "4", "x", "3", "6">>} \subseteq Range(ret.value)

\* the width and the height a size string shows, in tenths
WidthOf(x) == SizeKey(x)[1]

HeightOf(x) == SizeKey(x)[2]

\* a dimension as the claim has it shown: whole numbers without ".0", others
\* with one decimal
Shown(t) ==
    IF t % 10 = 0 THEN Digits(t \div 10)
    ELSE Digits(t \div 10) \o <<".", DigitSeq[(t % 10) + 1]>>

\* C17: a returned list has no string twice, ascends by numeric width and,
\* for equal widths, by numeric height; each string shows whole-number
\* dimensions without ".0" and fractional ones with one decimal:
\* format_size(4.0, 6.0) is 4x6 and format_size(6.8, 16.0) is 6.8x16
C17_ListIsDistinctSortedFormatted ==
    /\ (fpc \in {"return", "matched"} /\ ~ret.raised) =>
          /\ \A i, j \in DOMAIN ret.value :
                i < j =>
                    /\ ret.value[i] # ret.value[j]
                    /\ \/ WidthOf(ret.value[i]) < WidthOf(ret.value[j])
                       \/ /\ WidthOf(ret.value[i]) = WidthOf(ret.value[j])
                          /\ HeightOf(ret.value[i]) < HeightOf(ret.value[j])
          /\ \A i \in DOMAIN ret.value :
                \E j \in DOMAIN ALL_VALID_SIZES :
                    ret.value[i] = Shown(ALL_VALID_SIZES[j][1]) \o <<"x">>
                                   \o Shown(ALL_VALID_SIZES[j][2])
    /\ format_size(40, 60) = <<"4", "x", "6">>
    /\ format_size(68, 160) = <<"6", ".", "8", "x", "1", "6">>

\* the list of 1200 x 1800: twelve sizes, 23.6x35.4 between 20x30 and 24x36
C17_Witness ==
    /\ Matched
    /\ arg = <<1200, 1800>>
    /\ Len(ret.value) = 12
    /\ ret.value[6] = <<"2", "0", "x", "3", "0">>
    /\ ret.value[7] = <<"2", "3", ".", "6", "x", "3", "5", ".", "4">>
    /\ ret.value[8] = <<"2", "4", "x", "3", "6">>

\* C18: a query of height 0, whatever the width, ends in a raised error of
\* calculate_ratio or find_matching_print_sizes and never in a match list
C18_ZeroHeightRaises ==
    arg[2] = 0 =>
        /\ fpc \in {"return", "matched"} =>
               ret.raised /\ ret.exc = "ZeroDivisionError"
        /\ (fpc = "ratio" /\ arg[1] = 0) =>
               ret.raised /\ ret.exc = "ZeroDivisionError"
        /\ (fpc = "ratio" /\ arg[1] > 0) =>
               find_matching_print_sizes(ret.value[1], ret.value[2]).raised

\* width 3 and height 0: calculate_ratio returned, the matcher raised
C18_Witness ==
    /\ fpc = "matched"
    /\ arg = <<3, 0>>
    /\ ret.raised

\* C19: for positive pixel width and height, the match list computed from
\* calculate_ratio's simplified pair equals the one computed from the width
\* and height themselves
C19_SimplifiedPairMatchesAlike ==
    (arg[1] > 0 /\ arg[2] > 0) =>
        /\ fpc = "ratio" => ~ret.raised
        /\ fpc = "matched" =>
               ret = find_matching_print_sizes(FloatOf(arg[1]), FloatOf(arg[2]))

\* 4 x 6 pixels are simplified to 2 : 3 and match 4x6 first
C19_Witness ==
    /\ fpc = "matched"
    /\ arg = <<4, 6>>
    /\ ~ret.raised
    /\ ret.value # <<>>
    /\ ret.value[1] = <<"4", "x", "6">>
    /\ calculate_ratio(4, 6).value = <<FloatOf(2), FloatOf(3)>>

(***************************************************************************)
(* add_valid_ratios.py: process_artwork_file on one description file.      *)
(***************************************************************************)
\* line 70: DIM_LINE_REGEX.match(line.strip()), letters in either case
IsDimensionsLine(line) ==
    lower(strip(line)) = <<"d", "i", "m", "e", "n", "s", "i", "o", "n", "s">>

\* line 71: VALID_RATIOS_LINE_REGEX.match(line.strip()), letters in either
\* case, whitespace between the two words
IsValidRatiosLine(line) ==
    LET s == lower(strip(line))
        valid == <<"v", "a", "l", "i", "d">>
        ratios == <<"r", "a", "t", "i", "o", "s">>
    IN  /\ Len(s) >= Len(valid) + 1 + Len(ratios)
        /\ startswith(s, valid)
        /\ SubSeq(s, Len(s) - Len(ratios) + 1, Len(s)) = ratios
        /\ \A i \in (Len(valid) + 1)..(Len(s) - Len(ratios)) : IsSpace(s[i])

\* lines 206-207: the first line from i on that does not start with four
\* spaces or a tab
RECURSIVE SkipIndented(_, _)
SkipIndented(lines, i) ==
    IF i <= Len(lines) /\ IsIndented(lines[i]) THEN SkipIndented(lines, i + 1)
    ELSE i

\* lines 223-225: the lines added after the dimensions line
ValidRatiosSection(matches) ==
    << <<"\n">>,
       <<"V", "a", "l", "i", "d", " ", "R", "a", "t", "i", "o", "s", "\n">>,
       FourSpaces \o join(<<",", " ">>, matches) \o <<"\n">> >>

\* lines 199-232: the loop from line i on (counted from 1), with new_lines and
\* added_valid_ratios as they stand
RECURSIVE Rewrite(_, _, _, _, _)
Rewrite(lines, i, new_lines, added_valid_ratios, matches) ==
    IF i > Len(lines) THEN new_lines
    ELSE IF IsValidRatiosLine(lines[i])
    THEN Rewrite(lines, SkipIndented(lines, i + 1), new_lines,
                 added_valid_ratios, matches)
    ELSE IF IsDimensionsLine(lines[i]) /\ ~added_valid_ratios
    THEN IF i + 1 <= Len(lines)
         THEN Rewrite(lines, i + 2,
                      new_lines \o <<lines[i], lines[i + 1]>>
                      \o (IF matches # <<>> THEN ValidRatiosSection(matches)
                                            ELSE <<>>),
                      matches # <<>>, matches)
         \* no next line: lines 230-232 append the same line once more and step
         \* over the line after it
         ELSE Rewrite(lines, i + 2, new_lines \o <<lines[i], lines[i]>>,
                      added_valid_ratios, matches)
    ELSE Rewrite(lines, i + 1, Append(new_lines, lines[i]),
                 added_valid_ratios, matches)

\* lines 195-232: new_lines of a file and a match list
NewLines(lines, matches) == Rewrite(lines, 1, <<>>, FALSE, matches)

\* the lines a description file is made of
FileLineKinds ==
    { <<"D", "i", "m", "e", "n", "s", "i", "o", "n", "s", "\n">>,
      <<"\t", "1", "4", "x", "1", "7", "\n">>,
      <<"V", "a", "l", "i", "d", " ", "R", "a", "t", "i", "o", "s", "\n">>,
      <<" ", " ", " ", " ", "4", "x", "6", "\n">>,
      <<"\n">>,
      TitleWord \o <<"\n">> }

\* the image of the directory: none, one that cannot be read, or its size in
\* pixels (2:3 matches print sizes, 1:7 matches none)
ImageSizes == {<<4, 6>>, <<1, 7>>}

Images ==
    {[kind |-> "none", size |-> <<0, 0>>],
     [kind |-> "unreadable", size |-> <<0, 0>>]}
    \cup {[kind |-> "image", size |-> sz] : sz \in ImageSizes}

\* lines 181-184: the match list of each image size
ImageMatches ==
    [sz \in ImageSizes |->
        find_matching_print_sizes(calculate_ratio(sz[1], sz[2]).value[1],
                                  calculate_ratio(sz[1], sz[2]).value[2]).value]

InitFile ==
    /\ MergeIdle
    /\ ScanIdle
    /\ FnIdle
    /\ \E lines \in SeqsUpTo(FileLineKinds, MaxLines) :
           file = lines /\ original = lines
    /\ image \in Images
    /\ runs = 0
    /\ outcome = "idle"

\* lines 166-170: no image file in the directory
NoImageFound ==
    /\ runs < MaxRuns
    /\ image.kind = "none"
    /\ outcome' = "no image"
    /\ runs' = runs + 1
    /\ UNCHANGED <<file, original, image, scanVars, fnVars, mergeVars>>

\* lines 173-176: the image's dimensions cannot be read
ImageUnreadable ==
    /\ runs < MaxRuns
    /\ image.kind = "unreadable"
    /\ outcome' = "unreadable"
    /\ runs' = runs + 1
    /\ UNCHANGED <<file, original, image, scanVars, fnVars, mergeVars>>

\* lines 178-237 with dry_run false: the file is written
Update ==
    /\ runs < MaxRuns
    /\ image.kind = "image"
    /\ file' = NewLines(file, ImageMatches[image.size])
    /\ outcome' = "updated"
    /\ runs' = runs + 1
    /\ UNCHANGED <<original, image, scanVars, fnVars, mergeVars>>

\* lines 178-240 with dry_run true: the file is left as it is
DryRun ==
    /\ runs < MaxRuns
    /\ image.kind = "image"
    /\ outcome' = "dry run"
    /\ runs' = runs + 1
    /\ UNCHANGED <<file, original, image, scanVars, fnVars, mergeVars>>

NextFile == NoImageFound \/ ImageUnreadable \/ Update \/ DryRun

SpecFile == InitFile /\ [][NextFile]_vars

(***************************************************************************)
(* Claims about process_artwork_file.                                      *)
(***************************************************************************)
\* the header lines of Valid Ratios sections in the file
RatiosHeaders == {i \in DOMAIN file : IsValidRatiosLine(file[i])}

\* the content lines of field header d: the indented lines that follow it
ContentEnd(lines, d) == SkipIndented(lines, d + 1) - 1

\* C20: after a run that is no dry run, on a file with a Dimensions field and
\* with at least one matching print size, the file has exactly one Valid
\* Ratios header line; it comes right after the content of the Dimensions
\* field, no content line of Dimensions following it, and is followed by
\* exactly one line: four spaces and the matches joined by ", "
C20_OneSectionAfterDimensionsContent ==
    (/\ outcome = "updated"
     /\ runs = 1
     /\ ImageMatches[image.size] # <<>>
     /\ \E d \in DOMAIN original :
            IsDimensionsLine(original[d]) /\ ~IsIndented(original[d]))
    => /\ Cardinality(RatiosHeaders) = 1
       /\ \A h \in RatiosHeaders :
             /\ h + 1 <= Len(file)
             /\ file[h + 1] = FourSpaces
                              \o join(<<",", " ">>, ImageMatches[image.size])
                              \o <<"\n">>
             /\ h + 2 <= Len(file) => ~IsIndented(file[h + 2])
             /\ \E d \in 1..(h - 1) :
                   /\ IsDimensionsLine(file[d]) /\ ~IsIndented(file[d])
                   /\ ContentEnd(file, d) < h
                   /\ \A j \in (ContentEnd(file, d) + 1)..(h - 1) :
                          strip(file[j]) = <<>>

(***************************************************************************)
(* merge_artworks.py: the conversions of the parsed field texts.           *)
(***************************************************************************)
\* sub in s
Contains(s, sub) ==
    \E i \in 1..(Len(s) - Len(sub) + 1) : SubSeq(s, i, i + Len(sub) - 1) = sub

\* a float as a decimal: (-1)^neg * num / 10^places, or an infinity or a nan
Number(neg, num, places) ==
    [kind |-> "number", neg |-> neg, num |-> num, places |-> places]

\* float(s), for texts of digits, ".", signs, letters and whitespace (no
\* exponent, no underscore): raises ValueError unless the stripped text is a
\* signed decimal, inf, infinity or nan
float(s) ==
    LET t == strip(s)
        neg == t # <<>> /\ t[1] = "-"
        body == IF neg THEN Tail(t) ELSE t
        dots == {i \in DOMAIN body : body[i] = "."}
        digits == SelectSeq(body, LAMBDA c : c # ".")
        frac == IF dots = {} THEN <<>> ELSE SubSeq(body, Min(dots) + 1, Len(body))
        \* the digits after the point, without the zeros at their end
        kept == {i \in DOMAIN frac : frac[i] # "0"}
        places == IF kept = {} THEN 0 ELSE Max(kept)
    IN  IF lower(body) \in {<<"i", "n", "f">>, <<"i", "n", "f", "i", "n", "i", "t", "y">>}
        THEN Return([kind |-> "inf", neg |-> neg, num |-> 0, places |-> 0])
        ELSE IF lower(body) = <<"n", "a", "n">>
        THEN Return([kind |-> "nan", neg |-> neg, num |-> 0, places |-> 0])
        ELSE IF /\ digits # <<>>
                /\ \A i \in DOMAIN digits : digits[i] \in Range(DigitSeq)
                /\ Cardinality(dots) <= 1
        THEN Return(Number(neg,
                           IntOf(SubSeq(digits, 1, Len(digits) - Len(frac) + places)),
                           places))
        ELSE Raise("ValueError")

\* x > 0 of a float
Positive(x) ==
    ~x.neg /\ (x.kind = "inf" \/ (x.kind = "number" /\ x.num > 0))

\* lines 477-501
parse_price(price_str) ==
    LET cleaned == strip(SelectSeq(price_str, LAMBDA c : c \notin {"$", ","}))
    IN  IF strip(price_str) = <<>> THEN Number(FALSE, 0, 0)
        ELSE IF lower(cleaned) \in {<<"s", "o", "l", "d">>, <<"n", "o", "t", " ", "f", "o", "r", " ", "s", "a", "l", "e">>,
                                    <<"n", "/", "a">>, <<"n", "a">>}
        THEN Number(FALSE, 0, 0)
        ELSE IF float(cleaned).raised THEN Number(FALSE, 0, 0)
        ELSE float(cleaned).value

\* a for-sale test that accepts every price that is not negative
for_sale_when_not_negative(price_str) ==
    IF strip(price_str) = <<>> THEN FALSE
    ELSE IF \/ Contains(lower(price_str), <<"s", "o", "l", "d">>)
            \/ Contains(lower(price_str), <<"n", "o", "t", " ", "f", "o", "r", " ", "s", "a", "l", "e">>)
    THEN FALSE
    ELSE ~parse_price(price_str).neg

\* lines 503-523
determine_for_sale(price_str) ==
    IF strip(price_str) = <<>> THEN FALSE
    ELSE IF \/ Contains(lower(price_str), <<"s", "o", "l", "d">>)
            \/ Contains(lower(price_str), <<"n", "o", "t", " ", "f", "o", "r", " ", "s", "a", "l", "e">>)
    THEN FALSE
    ELSE Positive(parse_price(price_str))

\* str.split(sep) for a separator of one character
RECURSIVE split(_, _)
split(s, sep) ==
    LET at == {i \in DOMAIN s : s[i] = sep}
    IN  IF at = {} THEN <<s>>
        ELSE <<SubSeq(s, 1, Min(at) - 1)>> \o split(SubSeq(s, Min(at) + 1, Len(s)), sep)

UpperChar ==
    [c \in Chars |->
        IF \E i \in DOMAIN LowerSeq : LowerSeq[i] = c
        THEN UpperSeq[CHOOSE i \in DOMAIN LowerSeq : LowerSeq[i] = c]
        ELSE c]

\* str.title: a letter after a character that is no letter is made upper
\* case, every other letter lower case
title(s) ==
    [i \in 1..Len(s) |->
        IF ~IsLetter(s[i]) THEN s[i]
        ELSE IF i = 1 \/ ~IsLetter(s[i - 1]) THEN UpperChar[s[i]]
        ELSE LowerChar[s[i]]]

\* a formatting that keeps the empty categories
format_categories_with_empty(categories_str) ==
    LET categories == [i \in DOMAIN split(categories_str, ",") |->
                          strip(split(categories_str, ",")[i])]
    IN  IF strip(categories_str) = <<>> THEN <<>>
        ELSE join(<<",">>, [i \in DOMAIN categories |-> title(categories[i])])

\* lines 452-475
format_categories(categories_str) ==
    LET categories == [i \in DOMAIN split(categories_str, ",") |->
                          strip(split(categories_str, ",")[i])]
        kept == SelectSeq(categories, LAMBDA cat : cat # <<>>)
    IN  IF strip(categories_str) = <<>> THEN <<>>
        ELSE join(<<",">>, [i \in DOMAIN kept |-> title(kept[i])])

\* int(s), for texts of digits, "-", letters and whitespace (no underscore):
\* raises ValueError unless the stripped text is digits after an optional sign
int(s) ==
    LET t == strip(s)
        body == IF t # <<>> /\ t[1] = "-" THEN Tail(t) ELSE t
    IN  IF body # <<>> /\ \A i \in DOMAIN body : body[i] \in Range(DigitSeq)
        THEN Return(IF t[1] = "-" THEN -IntOf(body) ELSE IntOf(body))
        ELSE Raise("ValueError")

\* f"{year}-01-01"
FirstOfJanuary(year) ==
    (IF year < 0 THEN <<"-">> \o Digits(-year) ELSE Digits(year))
    \o <<"-", "0", "1", "-", "0", "1">>

\* Python's None where a text is expected
None == <<"None">>

\* a date conversion that hands on the text that is no year
parse_date_or_text(date_str) ==
    IF strip(date_str) = <<>> THEN None
    ELSE IF int(date_str).raised THEN date_str
    ELSE FirstOfJanuary(int(date_str).value)

\* merge_artworks.py, lines 428-450
parse_date_produced(date_str) ==
    IF strip(date_str) = <<>> THEN None
    ELSE IF int(date_str).raised THEN None
    ELSE FirstOfJanuary(int(date_str).value)

\* import_artwork.py, lines 435-444: artwork['date_produced'] after them
import_date_produced(date_produced) ==
    IF date_produced = <<>> THEN date_produced
    ELSE IF int(date_produced).raised THEN date_produced
    ELSE FirstOfJanuary(int(date_produced).value)

\* the pieces the field texts are made of, by field, and the examples of the
\* documentation
FieldPieces ==
    [originalprice |-> {<<"$">>, <<",">>, <<"5">>, <<"0">>, <<".">>, <<"-">>, <<" ">>,
                        <<"S", "o", "l", "d">>, <<"n", "o", "t", " ", "f", "o", "r", " ", "s", "a", "l", "e">>,
                        <<"n", "/", "a">>, <<"n", "a">>, <<"n">>, <<"i", "n", "f">>},
     categories |-> {<<"a", "b">>, <<"p", "a", "i", "n", "t", " ", "p", "o", "u", "r", "i", "n", "g">>, <<"3", "d">>, <<"O">>,
                     <<",">>, <<" ", ",", " ">>, <<" ">>},
     dateproduced |-> {<<"2">>, <<"0">>, <<"-">>, <<" ">>, <<"M", "a", "r", "c", "h">>},
     examples |-> {<<"$", "1", ",", "2", "0", "0">>, <<"$", "5", "0">>,
                   <<"a", "c", "r", "y", "l", "i", "c", ",", " ", "p", "a", "i", "n", "t", "i", "n", "g", ",", " ", "p", "a", "i", "n", "t", " ", "p", "o", "u", "r", "i", "n", "g">>,
                   <<"2", "0", "0", "2">>, <<"2", "0", "2", "4">>}]

FieldTexts ==
    UNION {{Concat(pieces) : pieces \in SeqsUpTo(FieldPieces[f], MaxFieldPieces)} :
              f \in DOMAIN FieldPieces \ {"examples"}}
    \cup FieldPieces.examples

InitFields ==
    /\ MergeIdle
    /\ ScanIdle
    /\ FileIdle
    /\ fpc = "call"
    /\ arg \in FieldTexts
    /\ ret = <<>>

\* determine_for_sale called with the text
CallDetermineForSale ==
    /\ fpc = "call"
    /\ ret' = determine_for_sale(arg)
    /\ fpc' = "determine_for_sale"
    /\ UNCHANGED <<arg, scanVars, fileVars, mergeVars>>

\* process_artwork_directory, lines 705-708: the price fields of the record
PreparePrice ==
    /\ fpc = "call"
    /\ ret' = [original_price |-> parse_price(strip(arg)),
               for_sale |-> determine_for_sale(strip(arg))]
    /\ fpc' = "record"
    /\ UNCHANGED <<arg, scanVars, fileVars, mergeVars>>

\* format_categories called with the text
CallFormatCategories ==
    /\ fpc = "call"
    /\ ret' = format_categories(arg)
    /\ fpc' = "format_categories"
    /\ UNCHANGED <<arg, scanVars, fileVars, mergeVars>>

\* merge_artworks.py: parse_date_produced called with the text
CallParseDateProduced ==
    /\ fpc = "call"
    /\ ret' = parse_date_produced(arg)
    /\ fpc' = "parse_date_produced"
    /\ UNCHANGED <<arg, scanVars, fileVars, mergeVars>>

\* import_artwork.py, lines 435-444, on the stripped text of line 226
ImportDateProduced ==
    /\ fpc = "call"
    /\ ret' = import_date_produced(strip(arg))
    /\ fpc' = "import_date_produced"
    /\ UNCHANGED <<arg, scanVars, fileVars, mergeVars>>

NextFields ==
    \/ CallDetermineForSale
    \/ PreparePrice
    \/ CallFormatCategories
    \/ CallParseDateProduced
    \/ ImportDateProduced

SpecFields == InitFields /\ [][NextFields]_vars

\* C21: determine_for_sale is false for a text that is blank or contains
\* "sold" or "not for sale" in any letter case, and for every other text it is
\* true exactly when parse_price of the text is above 0; so a record with
\* for_sale true has original_price above 0
C21_ForSaleIffPricedAndNotSold ==
    /\ fpc = "determine_for_sale" =>
          IF \/ strip(arg) = <<>>
             \/ \E i, j \in DOMAIN arg :
                   lower(SubSeq(arg, i, j)) \in {<<"s", "o", "l", "d">>, <<"n", "o", "t", " ", "f", "o", "r", " ", "s", "a", "l", "e">>}
          THEN ret = FALSE
          ELSE ret = Positive(parse_price(arg))
    /\ fpc = "record" => (ret.for_sale => Positive(ret.original_price))

\* "$1,200" is for sale at 1200
C21_Witness ==
    /\ fpc = "record"
    /\ arg = <<"$", "1", ",", "2", "0", "0">>
    /\ ret.for_sale
    /\ ret.original_price = Number(FALSE, 1200, 0)

\* the tokens of a text between its commas, in order
CommaTokens(s) ==
    LET commas == {i \in DOMAIN s : s[i] = ","}
        cuts == {0, Len(s) + 1} \cup commas
        \* the k-th cut in increasing order
        Cut(k) == CHOOSE c \in cuts : Cardinality({d \in cuts : d < c}) = k - 1
    IN  [k \in 1..(Cardinality(commas) + 1) |-> SubSeq(s, Cut(k) + 1, Cut(k + 1) - 1)]

\* t is the text s in title case: the same letters, a letter being upper case
\* exactly when no letter stands before it
IsTitleCaseOf(t, s) ==
    /\ Len(t) = Len(s)
    /\ \A i \in DOMAIN s :
          /\ LowerChar[t[i]] = LowerChar[s[i]]
          /\ IsLetter(s[i]) =>
                (t[i] \in Range(UpperSeq) <=> (i = 1 \/ ~IsLetter(s[i - 1])))

\* C22: format_categories returns the tokens between the commas of the text,
\* each trimmed, the empty ones dropped, each in title case, in their order
\* and joined by "," alone; a blank text gives the empty text; the result has
\* no empty token and no space next to a comma
C22_TrimmedTitleCasedTokens ==
    fpc = "format_categories" =>
        LET trimmed == [k \in DOMAIN CommaTokens(arg) |-> strip(CommaTokens(arg)[k])]
            kept == SelectSeq(trimmed, LAMBDA t : t # <<>>)
            out == CommaTokens(ret)
        IN  /\ strip(arg) = <<>> => ret = <<>>
            /\ IF kept = <<>> THEN ret = <<>>
               ELSE /\ Len(out) = Len(kept)
                    /\ \A k \in DOMAIN kept : IsTitleCaseOf(out[k], kept[k])
            /\ ret # <<>> => \A k \in DOMAIN out : out[k] # <<>>
            /\ \A i \in DOMAIN ret :
                  ret[i] = "," =>
                      /\ i > 1 /\ ~IsSpace(ret[i - 1])
                      /\ i < Len(ret) /\ ~IsSpace(ret[i + 1])
            /\ arg = <<"a", "c", "r", "y", "l", "i", "c", ",", " ", "p", "a", "i", "n", "t", "i", "n", "g", ",", " ", "p", "a", "i", "n", "t", " ", "p", "o", "u", "r", "i", "n", "g">>
               => ret = <<"A", "c", "r", "y", "l", "i", "c", ",", "P", "a", "i", "n", "t", "i", "n", "g", ",", "P", "a", "i", "n", "t", " ", "P", "o", "u", "r", "i", "n", "g">>

\* " , 3d," has two empty tokens, which are dropped: "3D"
C22_Witness ==
    /\ fpc = "format_categories"
    /\ arg = <<" ", ",", " ", "3", "d", ",">>
    /\ ret = <<"3", "D">>

\* the stored date of a text whose trimmed form is an integer year
YearDate(text) == FirstOfJanuary(int(strip(text)).value)

\* C23 as claimed: in the import and in the merge script, a trimmed date text
\* that is an integer year is stored as "<year>-01-01", and every other text
\* that is not empty is handed on unchanged
C23_YearOrTextUnchanged ==
    fpc \in {"parse_date_produced", "import_date_produced"} =>
        IF ~int(strip(arg)).raised THEN ret = YearDate(arg)
        ELSE strip(arg) # <<>> => ret = strip(arg)

\* C23, amended: a trimmed date text that is an integer year is stored as
\* "<year>-01-01" by both scripts; every other text that is not empty is
\* handed on unchanged by the import script, while the merge script stores
\* no date (None) for it
C23_YearOrTextOrNone ==
    /\ fpc = "import_date_produced" =>
          IF ~int(strip(arg)).raised THEN ret = YearDate(arg)
          ELSE strip(arg) # <<>> => ret = strip(arg)
    /\ fpc = "parse_date_produced" =>
          IF ~int(strip(arg)).raised THEN ret = YearDate(arg)
          ELSE strip(arg) # <<>> => ret = None

\* the merge script stores no date for "March"
C23_Witness ==
    /\ fpc = "parse_date_produced"
    /\ arg = <<"M", "a", "r", "c", "h">>
    /\ ret = None

(***************************************************************************)
(* merge_artworks.py: derive_image_basename_from_folder, next to the       *)
(* validator's stripDirStringToImageFormat.                                *)
(***************************************************************************)
\* the length of the match of r'^\d+-' in the name, 0 when there is none
NumberPrefixLen(folder_name) ==
    LET n == Len(folder_name)
        \* the first position that holds no digit
        stop == Min({i \in 1..n : folder_name[i] \notin Range(DigitSeq)} \cup {n + 1})
    IN  IF stop > 1 /\ stop <= n /\ folder_name[stop] = "-" THEN stop ELSE 0

\* lines 202-222
derive_image_basename_from_folder(folder_name) ==
    LET name_without_number ==
            SubSeq(folder_name, NumberPrefixLen(folder_name) + 1, Len(folder_name))
        name_without_underscores == SelectSeq(name_without_number, LAMBDA c : c # "_")
    IN  Prefix \o name_without_underscores

\* the base name find_artwork_images looks for (line 260) and the one the
\* validator matched, for the same directory name
DeriveBoth ==
    /\ fpc = "call"
    /\ ret' = [merge |-> derive_image_basename_from_folder(arg),
               validator |-> stripDirStringToImageFormat(arg)]
    /\ fpc' = "basenames"
    /\ UNCHANGED <<arg, scanVars, fileVars, mergeVars>>

SpecBasename == InitStrip /\ [][DeriveBoth]_vars

\* C27: for every directory name of the form <digits>-<FreeText> the merge
\* script's derive_image_basename_from_folder returns the same text as the
\* validator's stripDirStringToImageFormat
C27_BasenamesAgree ==
    (fpc = "basenames" /\ NumberPrefixLen(arg) > 0)
    => ret.validator = Return(ret.merge)

(***************************************************************************)
(* The validator's title check and parse_artwork_file on the same          *)
(* description text.                                                       *)
(***************************************************************************)
\* a Title field with two content lines
TwoLineTitleText ==
    TitleWord \o <<"\n", "\t", "S", "\n", "\t", "F", "\n">>

InitAgree ==
    /\ MergeIdle
    /\ ScanIdle
    /\ FileIdle
    /\ fpc = "call"
    /\ \/ \E pieces \in SeqsUpTo(Tokens, MaxTokens) : arg = Concat(pieces)
       \/ arg \in {TwoLineTitleText, ExampleText}
    /\ ret = <<>>

\* get_valid_art_directories checks the text (lines 56-64), then
\* process_artwork_directory parses it (lines 690-697)
CheckThenParse ==
    /\ fpc = "call"
    /\ ret' = [check |-> TitleCheck(arg), parsed_data |-> parse_artwork_file(arg)]
    /\ fpc' = "parsed"
    /\ UNCHANGED <<arg, scanVars, fileVars, mergeVars>>

SpecAgree == InitAgree /\ [][CheckThenParse]_vars

\* C26: for every description text for which the validator's title check
\* passes with extracted title T, parse_artwork_file returns a mapping whose
\* value at 'title' is T
C26_ValidatorAndParserAgreeOnTitle ==
    (fpc = "parsed" /\ ret.check.hasTitle)
    => /\ lower(TitleWord) \in DOMAIN ret.parsed_data
       /\ ret.parsed_data[lower(TitleWord)] = ret.check.title

(***************************************************************************)
(* Properties of repeated runs of process_artwork_file (SpecFile).         *)
(***************************************************************************)
\* C28: running process_artwork_file twice on a file, with the same match
\* list that is not empty, leaves the lines that running it once leaves: the
\* file after an update is the once-rewritten original, however many runs
\* came before
C28_SecondRunChangesNothing ==
    (outcome = "updated" /\ ImageMatches[image.size] # <<>>)
    => file = NewLines(original, ImageMatches[image.size])

\* line i of the lines is a content line of a Valid Ratios section
InRatiosSection(lines, i) ==
    \E h \in 1..(i - 1) :
        /\ IsValidRatiosLine(lines[h])
        /\ \A j \in (h + 1)..i : IsIndented(lines[j])

\* the lines that are neither Valid Ratios headers nor content lines of a
\* Valid Ratios section
OtherLines(lines) ==
    LET keep == {i \in DOMAIN lines :
                    ~IsValidRatiosLine(lines[i]) /\ ~InRatiosSection(lines, i)}
        Nth(k) == CHOOSE i \in keep : Cardinality({j \in keep : j < i}) = k - 1
    IN  [k \in 1..Cardinality(keep) |-> lines[Nth(k)]]

\* the lines of a are found in b, in their order
RECURSIVE IsSubsequence(_, _)
IsSubsequence(a, b) ==
    IF a = <<>> THEN TRUE
    ELSE IF b = <<>> THEN FALSE
    ELSE IF Head(a) = Head(b) THEN IsSubsequence(Tail(a), Tail(b))
    ELSE IsSubsequence(a, Tail(b))

\* C29: after any number of runs every line of the original file that is
\* neither a Valid Ratios header nor a content line of a Valid Ratios section
\* is still in the file, in the same relative order; a dry run does not
\* write the file
C29_OtherLinesKeptInOrder ==
    /\ IsSubsequence(OtherLines(original), file)
    /\ (outcome = "dry run" /\ runs = 1) => file = original

(***************************************************************************)
(* fix_missing_titles.py: update_title_in_file(file_path, title).  The     *)
(* file is in file, the title in arg, the value returned in ret.           *)
(***************************************************************************)
\* a path at which there is no file
NoFile == <<"no file">>

\* line 71: line.strip() == 'Title'
IsTitleLine(line) == strip(line) = TitleWord

\* line 79: the next line is skipped when it is not blank and is not taken
\* for a field header
SkipsNext(next_line) ==
    strip(next_line) # <<>> /\ ~FieldMatch(strip(next_line)).matched

\* lines 66-82: the loop from line i on (counted from 1)
RECURSIVE TitleRewrite(_, _, _, _)
TitleRewrite(lines, i, new_lines, new_title) ==
    IF i > Len(lines) THEN new_lines
    ELSE IF IsTitleLine(lines[i])
    THEN TitleRewrite(lines,
                      IF i + 1 <= Len(lines) /\ SkipsNext(lines[i + 1])
                      THEN i + 2 ELSE i + 1,
                      new_lines \o <<lines[i], <<"\t">> \o new_title \o <<"\n">> >>,
                      new_title)
    ELSE TitleRewrite(lines, i + 1, Append(new_lines, lines[i]), new_title)

\* the titles given to the script, "The Witches" being the documented one
Titles ==
    {<<"S">>, <<"3", "d">>, <<"T", "h", "e", " ", "W", "i", "t", "c", "h", "e", "s">>}

\* the lines a description file is made of
TitleLineKinds ==
    { TitleWord \o <<"\n">>,
      <<"\t", "S", "\n">>,
      <<"\t", "3", "d", "\n">>,
      <<"\n">>,
      <<"D", "i", "m", "e", "n", "s", "i", "o", "n", "s", "\n">> }

InitFix ==
    /\ MergeIdle
    /\ ScanIdle
    /\ \/ \E lines \in SeqsUpTo(TitleLineKinds, MaxLines) :
              file = lines /\ original = lines
       \/ file = NoFile /\ original = NoFile
    /\ image = <<>>
    /\ runs = 0
    /\ outcome = "idle"
    /\ fpc = "call"
    /\ arg \in Titles
    /\ ret = FALSE

\* lines 53-55: there is no file at the path
FileNotFound ==
    /\ runs < MaxRuns
    /\ file = NoFile
    /\ ret' = FALSE
    /\ outcome' = "not found"
    /\ runs' = runs + 1
    /\ UNCHANGED <<file, original, image, fpc, arg, scanVars, mergeVars>>

\* lines 57-89: a Title line was found and the file is written
TitleUpdated ==
    /\ runs < MaxRuns
    /\ file # NoFile
    /\ \E i \in DOMAIN file : IsTitleLine(file[i])
    /\ file' = TitleRewrite(file, 1, <<>>, arg)
    /\ ret' = TRUE
    /\ outcome' = "updated"
    /\ runs' = runs + 1
    /\ UNCHANGED <<original, image, fpc, arg, scanVars, mergeVars>>

\* lines 57-92: no Title line, the file is left as it is
TitleNotFound ==
    /\ runs < MaxRuns
    /\ file # NoFile
    /\ \A i \in DOMAIN file : ~IsTitleLine(file[i])
    /\ ret' = FALSE
    /\ outcome' = "no title field"
    /\ runs' = runs + 1
    /\ UNCHANGED <<file, original, image, fpc, arg, scanVars, mergeVars>>

NextFix == FileNotFound \/ TitleUpdated \/ TitleNotFound

SpecFix == InitFix /\ [][NextFix]_vars

\* C30: after update_title_in_file(file, T) has returned True, every Title
\* header line of the file is followed by exactly one content line, the tab
\* and T; parsing the file gives the title T; and a second update with the
\* same T leaves the file as the first update left it
C30_TitleSetOnce ==
    ret = TRUE =>
        /\ \A h \in DOMAIN file :
              (IsTitleLine(file[h]) /\ ~IsIndented(file[h]))
              => /\ h + 1 <= Len(file)
                 /\ file[h + 1] = <<"\t">> \o arg \o <<"\n">>
                 /\ h + 2 <= Len(file) => ~IsIndented(file[h + 2])
        /\ lower(TitleWord) \in DOMAIN parse_artwork_file(Concat(file))
        /\ parse_artwork_file(Concat(file))[lower(TitleWord)] = arg
        /\ file = TitleRewrite(original, 1, <<>>, arg)

(***************************************************************************)
(* merge_artworks.py: main.  Each directory of art_dirs gives no record    *)
(* (process_artwork_directory returns None), a record that the database    *)
(* takes, or a record for which merge_artwork raises.  The table artworks  *)
(* of the database is a function from titles (its unique key) to content   *)
(* hashes; conn holds the committed table and the one the open transaction *)
(* sees.                                                                   *)
(***************************************************************************)
MergeTitles == {"The Maypole Unicorn", "Buck"}

Contents == {"acrylic", "oil"}

ArtworkKinds ==
    {[kind |-> "none", title |-> "", content |-> ""],
     [kind |-> "rejected", title |-> "Buck", content |-> "acrylic"]}
    \cup {[kind |-> "data", title |-> t, content |-> c] :
              t \in MergeTitles, c \in Contents}

\* lines 525-559: SHA-256 of the fields, taken as free of collisions
calculate_content_hash(artwork_data) ==
    <<artwork_data.title, artwork_data.content>>

NoStats == [inserted |-> 0, updated |-> 0, skipped |-> 0, errors |-> 0]

Total(st) == st.inserted + st.updated + st.skipped + st.errors

\* conn.commit() taken for conn.rollback()
commit_for_rollback(c) == [c EXCEPT !.committed = c.working]

\* conn.rollback()
rollback(c) == [c EXCEPT !.working = c.committed]

\* conn.commit()
commit(c) == [c EXCEPT !.committed = c.working]

\* the record of a finished run
Ended(how, c, st) ==
    [dry_run |-> dry_run, outcome |-> how, stats |-> st, pos |-> pos,
     before |-> conn.committed, after |-> c.committed, executed |-> c.executed]

InitMerge ==
    /\ ScanIdle
    /\ FnIdle
    /\ FileIdle
    /\ mpc = "start"
    /\ artworks \in SeqsUpTo(ArtworkKinds, MaxDirs)
    /\ pos = 0
    /\ conn = [committed |-> <<>>, working |-> <<>>, executed |-> 0]
    /\ stats = NoStats
    /\ dry_run = FALSE
    /\ log = <<>>

\* lines 790-792: no artwork directories
NoDirectories ==
    /\ mpc = "start"
    /\ Len(log) < MaxRuns
    /\ artworks = <<>>
    /\ dry_run' \in BOOLEAN
    /\ log' = Append(log, [Ended("no directories", [conn EXCEPT !.executed = 0],
                                    NoStats)
                              EXCEPT !.dry_run = dry_run'])
    /\ UNCHANGED <<mpc, artworks, pos, conn, stats, scanVars, fnVars, fileVars>>

\* lines 797-804: psycopg2.connect raises
ConnectFails ==
    /\ mpc = "start"
    /\ Len(log) < MaxRuns
    /\ artworks # <<>>
    /\ dry_run' \in BOOLEAN
    /\ log' = Append(log, [Ended("no connection", [conn EXCEPT !.executed = 0],
                                    NoStats)
                              EXCEPT !.dry_run = dry_run'])
    /\ UNCHANGED <<mpc, artworks, pos, conn, stats, scanVars, fnVars, fileVars>>

\* lines 797-810: connected, a transaction is open
Connect ==
    /\ mpc = "start"
    /\ Len(log) < MaxRuns
    /\ artworks # <<>>
    /\ dry_run' \in BOOLEAN
    /\ conn' = [conn EXCEPT !.working = conn.committed, !.executed = 0]
    /\ stats' = NoStats
    /\ pos' = 1
    /\ mpc' = "loop"
    /\ UNCHANGED <<artworks, log, scanVars, fnVars, fileVars>>

\* lines 815-819: process_artwork_directory returns None
ProcessFails ==
    /\ mpc = "loop"
    /\ pos <= Len(artworks)
    /\ artworks[pos].kind = "none"
    /\ stats' = [stats EXCEPT !.errors = @ + 1]
    /\ pos' = pos + 1
    /\ UNCHANGED <<mpc, artworks, conn, dry_run, log, scanVars, fnVars, fileVars>>

\* lines 822-824: dry run
WouldMerge ==
    /\ mpc = "loop"
    /\ pos <= Len(artworks)
    /\ artworks[pos].kind # "none"
    /\ dry_run
    /\ stats' = [stats EXCEPT !.inserted = @ + 1]
    /\ pos' = pos + 1
    /\ UNCHANGED <<mpc, artworks, conn, dry_run, log, scanVars, fnVars, fileVars>>

\* merge_artwork, lines 578-594: a row with the title and the same hash
MergeSkipped ==
    /\ mpc = "loop"
    /\ pos <= Len(artworks)
    /\ artworks[pos].kind = "data"
    /\ ~dry_run
    /\ artworks[pos].title \in DOMAIN conn.working
    /\ conn.working[artworks[pos].title] = calculate_content_hash(artworks[pos])
    /\ stats' = [stats EXCEPT !.skipped = @ + 1]
    /\ pos' = pos + 1
    /\ UNCHANGED <<mpc, artworks, conn, dry_run, log, scanVars, fnVars, fileVars>>

\* merge_artwork, lines 596-668: INSERT ... ON CONFLICT (title) DO UPDATE
MergeUpsert ==
    /\ mpc = "loop"
    /\ pos <= Len(artworks)
    /\ artworks[pos].kind = "data"
    /\ ~dry_run
    /\ ~(/\ artworks[pos].title \in DOMAIN conn.working
         /\ conn.working[artworks[pos].title] = calculate_content_hash(artworks[pos]))
    /\ conn' = [conn EXCEPT !.working = Store(conn.working, artworks[pos].title,
                                               calculate_content_hash(artworks[pos])),
                            !.executed = @ + 1]
    /\ stats' = IF artworks[pos].title \in DOMAIN conn.working
                THEN [stats EXCEPT !.updated = @ + 1]
                ELSE [stats EXCEPT !.inserted = @ + 1]
    /\ pos' = pos + 1
    /\ UNCHANGED <<mpc, artworks, dry_run, log, scanVars, fnVars, fileVars>>

\* lines 829-834 and 853-860: merge_artwork raises, the transaction is
\* rolled back and the script exits
MergeRaises ==
    /\ mpc = "loop"
    /\ pos <= Len(artworks)
    /\ artworks[pos].kind = "rejected"
    /\ ~dry_run
    /\ stats' = [stats EXCEPT !.errors = @ + 1]
    /\ conn' = rollback(conn)
    /\ log' = Append(log, Ended("rolled back", conn', stats'))
    /\ mpc' = "start"
    /\ UNCHANGED <<artworks, pos, dry_run, scanVars, fnVars, fileVars>>

\* lines 836-840: every directory is done, the changes are committed
CommitAll ==
    /\ mpc = "loop"
    /\ pos > Len(artworks)
    /\ ~dry_run
    /\ conn' = commit(conn)
    /\ log' = Append(log, Ended("committed", conn', stats))
    /\ mpc' = "start"
    /\ UNCHANGED <<artworks, pos, stats, dry_run, scanVars, fnVars, fileVars>>

\* lines 841-843 and 860: the end of a dry run, the connection is closed
DryRunEnds ==
    /\ mpc = "loop"
    /\ pos > Len(artworks)
    /\ dry_run
    /\ conn' = rollback(conn)
    /\ log' = Append(log, Ended("dry run", conn', stats))
    /\ mpc' = "start"
    /\ UNCHANGED <<artworks, pos, stats, dry_run, scanVars, fnVars, fileVars>>

NextMerge ==
    \/ NoDirectories
    \/ ConnectFails
    \/ Connect
    \/ ProcessFails
    \/ WouldMerge
    \/ MergeSkipped
    \/ MergeUpsert
    \/ MergeRaises
    \/ CommitAll
    \/ DryRunEnds

SpecMerge == InitMerge /\ [][NextMerge]_vars

\* the directories that give a record
Records == {i \in DOMAIN artworks : artworks[i].kind # "none"}

\* C24: a merge that is no dry run and follows a committed merge over the
\* same directories reports every artwork as skipped and inserts or updates
\* no row, whatever the directories, two with the same title included
C24_SecondMergeSkipsAll ==
    \A k \in 1..(Len(log) - 1) :
        (/\ log[k].outcome = "committed"
         /\ log[k + 1].outcome \in {"committed", "rolled back"})
        => /\ log[k + 1].stats.skipped = Cardinality(Records)
           /\ log[k + 1].stats.inserted = 0
           /\ log[k + 1].stats.updated = 0
           /\ log[k + 1].executed = 0
           /\ log[k + 1].after = log[k + 1].before

\* the committed table when the last finished run ended
LastCommitted == IF log = <<>> THEN <<>> ELSE log[Len(log)].after

\* C25: nothing is committed before every directory has been processed; a
\* run in which merge_artwork raises stops there and commits none of the
\* inserts and updates made before; a dry run executes no insert or update
C25_AllOrNothing ==
    /\ conn.committed = LastCommitted
    /\ (mpc = "loop" /\ dry_run) => (conn.executed = 0 /\ conn.working = conn.committed)
    /\ \A k \in DOMAIN log :
          /\ log[k].outcome = "committed" =>
                /\ ~log[k].dry_run
                /\ log[k].pos = Len(artworks) + 1
                /\ Total(log[k].stats) = Len(artworks)
          /\ log[k].outcome = "rolled back" =>
                /\ artworks[log[k].pos].kind = "rejected"
                /\ \A j \in 1..(log[k].pos - 1) : artworks[j].kind # "rejected"
                /\ Total(log[k].stats) = log[k].pos
                /\ log[k].after = log[k].before
          /\ log[k].dry_run =>
                /\ log[k].executed = 0
                /\ log[k].after = log[k].before

\* a run that had inserted a row before merge_artwork raised, and left the
\* table as it was
C25_Witness ==
    \E k \in DOMAIN log :
        /\ log[k].outcome = "rolled back"
        /\ log[k].executed > 0
        /\ log[k].stats.inserted > 0
        /\ log[k].after = log[k].before

====
